---- MODULE Spec2Model ----
(***************************************************************************)
(* A model of fx-gin-scaffold: the migration runner (internal/migration),  *)
(* the user service and its two repositories (internal/service,            *)
(* internal/repo) and the token service (internal/service).                *)
(*                                                                         *)
(* The specifications share the variables:                                 *)
(*   SpecMigrate    the migration runner working on the ledger;            *)
(*   Spec           the user service over either repository;               *)
(*   SpecAuth       the token service, the clock and the tokens issued;    *)
(*   SpecRun        RunMigrations with its seeders and the check modes;    *)
(*   SpecRepo       the repository interface, ListUsers and SearchUsers;   *)
(*   SpecAdmin      the user service with its administration and seeders;  *)
(*   SpecSeed       the seeders run again and again on one store;          *)
(*   SpecMongo      Create and Update of the mongo repository;             *)
(*   SpecValidate   Register at the limits of validateCreateRequest;       *)
(*   SpecTable      SetTablePrefix, GetTablePrefix and GetTableName;       *)
(*   SpecCancel     repository, seeders and runner, context cancelled;     *)
(*   SpecDeactivate Login and RefreshToken beside deactivation;            *)
(*   SpecProfile    UpdateProfile beside UpdateUser;                       *)
(*   SpecPair       two migration runners on one database;                 *)
(*   SpecServe      the admin routes behind the JWT middleware.            *)
(***************************************************************************)
EXTENDS Integers, Sequences, FiniteSets, TLC

VARIABLES
    ledger,     \* the rows of the migrations table / collection, in insertion order
    upDone,     \* per version: how many times its Up has completed successfully
    mig,        \* per runner: the Migrator object and the position of its Migrate call
    driver,     \* Config.Database.Driver
    expiration, \* Config.JWT.Expiration, in ticks
    users,      \* the rows of the users table / the documents of the users collection
    nextID,     \* the next key the store hands out
    emailIndex, \* the unique index on email: "pending", "created" or "failed"
    now,        \* the clock, in ticks
    tokens,     \* the tokens issued so far
    calls,      \* per client: its call between the read and the write of the store
    last,       \* the last completed call: its request and what it returned
    regDone,    \* per normalized email: the outcomes of the completed Register calls
    overlapped, \* whether two Register calls were ever in flight together
    fxUsers,    \* the documents of the fx_users collection the seeders write on MongoDB
    ops,        \* how many writing calls were made (bounded by MaxOps)
    tablePrefix,\* the package variable tablePrefix of the domain package
    once,       \* the sync.Once of SetTablePrefix: "fresh", "running" or "done"
    setters     \* per caller: its SetTablePrefix call, and the call that took effect

migVars == <<ledger, upDone, mig>>

userVars == <<driver, expiration, users, nextID, emailIndex, now, tokens, calls, last,
              regDone, overlapped, fxUsers, ops>>

tableVars == <<tablePrefix, once, setters>>

vars == <<migVars, userVars, tableVars>>

(***************************************************************************)
(* Strings.  A string is a sequence of one-character strings, so that the  *)
(* comparisons and conversions of the code are computed, not assumed.      *)
(***************************************************************************)
Range(s) == { s[k] : k \in DOMAIN s }

MinOf(a, b) == IF a < b THEN a ELSE b

\* Go's < on strings of decimal digits: byte-wise lexicographic order.
StrLess(a, b) ==
    \E k \in 1..(MinOf(Len(a), Len(b)) + 1) :
        /\ \A j \in 1..(k - 1) : a[j] = b[j]
        /\ \/ k > Len(a) /\ k <= Len(b)
           \/ k <= Len(a) /\ k <= Len(b) /\ a[k] < b[k]

(***************************************************************************)
(* The migration runner.                                                   *)
(***************************************************************************)

\* Bounds of the model.
MaxRuns == 3

\* The version strings migrations may carry; as strings "1" < "10" < "2" < "20".
Versions == { <<1>>, <<1, 0>>, <<2>>, <<2, 0>> }

Runners == { "r1", "r2" }

NoErr == [kind |-> "nil", version |-> <<>>]

MigErr(k, v) == [kind |-> k, version |-> v]

RemoveAt(s, k) == [j \in 1..(Len(s) - 1) |-> IF j < k THEN s[j] ELSE s[j + 1]]

\* A comparison by numeric value, which differs from the byte-wise one on
\* versions of different lengths.
NumericVersionLess(a, b) ==
    \/ Len(a) < Len(b)
    \/ Len(a) = Len(b) /\ StrLess(a, b)

\* The comparison Migrate hands to sort.Slice.
VersionLess(a, b) == StrLess(a, b)

RECURSIVE SortByVersion(_)
SortByVersion(s) ==
    IF s = <<>> THEN <<>>
    ELSE LET k == CHOOSE k \in DOMAIN s :
                      \A j \in DOMAIN s : j = k \/ ~VersionLess(s[j], s[k])
         IN  <<s[k]>> \o SortByVersion(RemoveAt(s, k))

\* getExecutedMigrations: the set of versions read from the ledger.
ExecutedVersions(l) == Range(l)

\* A ledger without a key: no version is ever found in the way of an insert.
LedgerHasNoKey(l, v) == FALSE

\* The unique key of the ledger (PRIMARY KEY / unique index on version).
LedgerHas(l, v) == v \in Range(l)

LedgerInsertDropped(l, v) == l

\* recordMigration's INSERT.
LedgerInsert(l, v) == Append(l, v)

CountIn(l, v) == Cardinality({ k \in DOMAIN l : l[k] = v })

IdleRunner ==
    [ migrations |-> <<>>, pc |-> "idle", executed |-> {}, i |-> 0, err |-> NoErr,
      runs |-> 0,
      \* history of the calls, kept for the properties only
      regOrder |-> <<>>, runSet |-> {}, startLedger |-> <<>>,
      ups |-> <<>>, succeeded |-> <<>>,
      prevOk |-> FALSE, prevSet |-> {},
      \* RunMigrations: the environment, the position of Seed in the seeders
      \* and the seeders whose Run was called
      env |-> "", seed |-> "none", si |-> 0, ran |-> <<>>,
      \* the last report of the check / dry-run mode and how many were made
      report |-> [mode |-> "none", pending |-> <<>>, seeders |-> <<>>, err |-> NoErr],
      reports |-> 0 ]

AtRest(r) == mig[r].pc \in {"idle", "returned"}

\* Migrator.AddMigration: append to the registered migrations.
AddMigration(r, v) ==
    /\ AtRest(r)
    /\ v \notin Range(mig[r].migrations)
    /\ mig' = [mig EXCEPT ![r].migrations = Append(@, v)]
    /\ UNCHANGED <<ledger, upDone, userVars, tableVars>>

\* Migrator.Migrate, entry: sort the registered migrations in place.
MigrateSort(r) ==
    /\ AtRest(r)
    /\ mig[r].runs < MaxRuns
    /\ mig' = [mig EXCEPT
                 ![r].migrations = SortByVersion(@),
                 ![r].pc = "ensure",
                 ![r].executed = {},
                 ![r].i = 0,
                 ![r].err = NoErr,
                 ![r].runs = @ + 1,
                 ![r].regOrder = mig[r].migrations,
                 ![r].runSet = Range(mig[r].migrations),
                 ![r].startLedger = ledger,
                 ![r].ups = <<>>,
                 ![r].succeeded = <<>>,
                 ![r].prevOk = (mig[r].pc = "returned" /\ mig[r].err = NoErr),
                 ![r].prevSet = mig[r].runSet,
                 ![r].env = "",
                 ![r].seed = "none",
                 ![r].si = 0,
                 ![r].ran = <<>>]
    /\ UNCHANGED <<ledger, upDone, userVars, tableVars>>

\* ensureMigrationTracking: CREATE TABLE IF NOT EXISTS / create the unique index.
EnsureTrackingOk(r) ==
    /\ mig[r].pc = "ensure"
    /\ mig' = [mig EXCEPT ![r].pc = "read"]
    /\ UNCHANGED <<ledger, upDone, userVars, tableVars>>

EnsureTrackingFail(r) ==
    /\ mig[r].pc = "ensure"
    /\ mig' = [mig EXCEPT ![r].pc = "returned", ![r].err = MigErr("tracking_failed", <<>>)]
    /\ UNCHANGED <<ledger, upDone, userVars, tableVars>>

\* getExecutedMigrations: one read of the ledger, before the loop.
GetExecutedOk(r) ==
    /\ mig[r].pc = "read"
    /\ mig' = [mig EXCEPT ![r].pc = "loop", ![r].executed = ExecutedVersions(ledger),
                          ![r].i = 1]
    /\ UNCHANGED <<ledger, upDone, userVars, tableVars>>

GetExecutedFail(r) ==
    /\ mig[r].pc = "read"
    /\ mig' = [mig EXCEPT ![r].pc = "returned", ![r].err = MigErr("read_failed", <<>>)]
    /\ UNCHANGED <<ledger, upDone, userVars, tableVars>>

Current(r) == mig[r].migrations[mig[r].i]

InLoop(r) == mig[r].pc = "loop" /\ mig[r].i <= Len(mig[r].migrations)

\* The loop body's ledger check: already executed, continue.
SkipExecuted(r) ==
    /\ InLoop(r)
    /\ Current(r) \in mig[r].executed
    /\ mig' = [mig EXCEPT ![r].i = @ + 1]
    /\ UNCHANGED <<ledger, upDone, userVars, tableVars>>

\* migration.Up returns nil.
UpOk(r) ==
    /\ InLoop(r)
    /\ Current(r) \notin mig[r].executed
    /\ upDone' = [upDone EXCEPT ![Current(r)] = @ + 1]
    /\ mig' = [mig EXCEPT ![r].pc = "record",
                          ![r].ups = Append(@, Current(r)),
                          ![r].succeeded = Append(@, Current(r))]
    /\ UNCHANGED <<ledger, userVars, tableVars>>

UpFailRecords(r) ==
    /\ InLoop(r)
    /\ Current(r) \notin mig[r].executed
    /\ ledger' = LedgerInsert(ledger, Current(r))
    /\ mig' = [mig EXCEPT ![r].pc = "returned",
                          ![r].err = MigErr("migration_failed", Current(r)),
                          ![r].ups = Append(@, Current(r))]
    /\ UNCHANGED <<upDone, userVars, tableVars>>

\* migration.Up returns an error: Migrate returns "migration <version> failed".
UpFail(r) ==
    /\ InLoop(r)
    /\ Current(r) \notin mig[r].executed
    /\ mig' = [mig EXCEPT ![r].pc = "returned",
                          ![r].err = MigErr("migration_failed", Current(r)),
                          ![r].ups = Append(@, Current(r))]
    /\ UNCHANGED <<ledger, upDone, userVars, tableVars>>

\* recordMigration succeeds: the version is appended to the ledger.
RecordOk(r) ==
    /\ mig[r].pc = "record"
    /\ ~LedgerHas(ledger, Current(r))
    /\ ledger' = LedgerInsert(ledger, Current(r))
    /\ mig' = [mig EXCEPT ![r].pc = "loop", ![r].i = @ + 1]
    /\ UNCHANGED <<upDone, userVars, tableVars>>

\* recordMigration fails (a backend error, or the unique key rejects the
\* version): Migrate returns "failed to record migration <version>".
RecordFail(r) ==
    /\ mig[r].pc = "record"
    /\ mig' = [mig EXCEPT ![r].pc = "returned",
                          ![r].err = MigErr("record_failed", Current(r))]
    /\ UNCHANGED <<ledger, upDone, userVars, tableVars>>

\* The loop is over: Migrate returns nil.
MigrateReturn(r) ==
    /\ mig[r].pc = "loop"
    /\ mig[r].i > Len(mig[r].migrations)
    /\ mig' = [mig EXCEPT ![r].pc = "returned", ![r].err = NoErr]
    /\ UNCHANGED <<ledger, upDone, userVars, tableVars>>

(***************************************************************************)
(* The user service, its repositories and the token service.               *)
(***************************************************************************)

\* Bounds of the model.
MaxRegisters == 2
MaxTokens == 2
MaxTime == 4

\* time.Hour, in clock ticks of half an hour.
Hour == 2

\* len(req.Password) < 8 and len(name) < 2 in validateCreateRequest.
MinPasswordLen == 8
MinNameLen == 2

\* The values JWT_EXPIRATION is given in the model: one hour and two hours.
Expirations == { Hour, 2 * Hour }

Drivers == { "sqlite", "postgres", "mongo" }

\* NewUserRepository: the relational repository for sqlite and postgres.
IsGorm(d) == d \in { "sqlite", "postgres" }

Clients == { "c1", "c2" }

\* ---- strings.ToLower, strings.TrimSpace, strings.Contains ----
LowerTok(c) ==
    CASE c = "A" -> "a"
      [] c = "UNIQUE" -> "unique"
      [] c = "ERROR" -> "error"
      [] OTHER -> c

ToLower(s) == [k \in DOMAIN s |-> LowerTok(s[k])]

IsSpace(c) == c = " "

RECURSIVE TrimLeft(_)
TrimLeft(s) == IF s # <<>> /\ IsSpace(Head(s)) THEN TrimLeft(Tail(s)) ELSE s

RECURSIVE TrimRight(_)
TrimRight(s) ==
    IF s # <<>> /\ IsSpace(s[Len(s)]) THEN TrimRight(SubSeq(s, 1, Len(s) - 1)) ELSE s

TrimSpace(s) == TrimRight(TrimLeft(s))

\* Go's len on a string: the number of bytes of its UTF-8 encoding.  Every
\* character of the model is one byte wide but "U+00E9", which is two.
Width(c) == IF c = "U+00E9" THEN 2 ELSE 1

RECURSIVE ByteLen(_)
ByteLen(s) == IF s = <<>> THEN 0 ELSE Width(Head(s)) + ByteLen(Tail(s))

Contains(s, sub) ==
    \E k \in 0..(Len(s) - Len(sub)) : SubSeq(s, k + 1, k + Len(sub)) = sub

\* ---- the inputs of the model ----
RawEmails == { <<"a">>, <<" ", "A", " ">>, <<"b">>, <<" ">> }

PwGood == <<"p", "a", "s", "s", "w", "o", "r", "d">>

PwWrong == <<"P", "a", "s", "s", "w", "o", "r", "d">>

PwShort == <<"p", "a", "s", "s", "w", "o", "r">>

RequestedRoles == { "", "admin", "moderator" }

\* A request per normalized email and requested role, and one per way of
\* failing validateCreateRequest.
ValidCreateRequests ==
    [ Email : RawEmails \ { <<" ">> }, Password : { PwGood },
      Name : { <<" ", "A", "l">> }, Role : RequestedRoles ]

InvalidCreateRequests ==
    { [Email |-> <<" ">>, Password |-> PwGood, Name |-> <<" ", "A", "l">>, Role |-> ""],
      [Email |-> <<"a">>, Password |-> PwGood, Name |-> <<" ">>, Role |-> ""],
      [Email |-> <<"a">>, Password |-> PwGood, Name |-> <<" ", "A", " ">>, Role |-> ""],
      [Email |-> <<"a">>, Password |-> PwShort, Name |-> <<" ", "A", "l">>,
       Role |-> "admin"] }

CreateRequests == ValidCreateRequests \cup InvalidCreateRequests

LoginRequests ==
    { [Email |-> <<"a">>, Password |-> PwGood],
      [Email |-> <<" ", "A", " ">>, Password |-> PwGood],
      [Email |-> <<"a">>, Password |-> PwWrong],
      [Email |-> <<"b">>, Password |-> PwWrong],
      [Email |-> <<"a">>, Password |-> <<>>],
      [Email |-> <<" ">>, Password |-> PwGood] }

\* UserUpdateRequest: has holds the fields whose pointer is not nil.
UpdateRequests ==
    { [has |-> {"Active"}, Name |-> <<>>, Role |-> "", Active |-> FALSE],
      [has |-> {"Active"}, Name |-> <<>>, Role |-> "", Active |-> TRUE],
      [has |-> {"Role", "Active"}, Name |-> <<>>, Role |-> "root", Active |-> FALSE],
      [has |-> {"Name"}, Name |-> <<" ">>, Role |-> "", Active |-> FALSE],
      [has |-> {"Name", "Role"}, Name |-> <<" ", "A", "l">>, Role |-> "admin",
       Active |-> FALSE] }

\* ---- domain errors ----
Err(code) == [code |-> code, field |-> ""]

NilErr == Err("nil")

ValidationError(field) == [code |-> "VALIDATION_ERROR", field |-> field]

ErrUserNotFound == Err("NOT_FOUND")

ErrUserExists == Err("ALREADY_EXISTS")

ErrInvalidPassword == Err("INVALID_PASSWORD")

ErrInvalidToken == Err("INVALID_TOKEN")

\* The codes declared as validation errors.
ValidationCodes == { "VALIDATION_ERROR", "INVALID_VALUE" }

\* ---- domain.User ----
PlainText(p) == p

\* User.HashPassword: the digest of a plaintext (never the plaintext itself).
Hash(p) == <<"$2a$">> \o p

\* User.CheckPassword.
CheckPassword(h, p) == h = Hash(p)

NoUser == [none |-> TRUE]

NoToken == [none |-> TRUE]

\* User.ToResponse: every field but Password.
ToResponse(u) ==
    [ID |-> u.ID, Email |-> u.Email, Name |-> u.Name, Role |-> u.Role,
     Active |-> u.Active, CreatedAt |-> u.CreatedAt]

\* ---- userService helpers ----
\* validateCreateRequest.
ValidateCreateRequest(req) ==
    IF TrimSpace(req.Email) = <<>> THEN ValidationError("email")
    ELSE IF TrimSpace(req.Name) = <<>> THEN ValidationError("name")
    ELSE IF ByteLen(TrimSpace(req.Name)) < MinNameLen THEN ValidationError("name")
    ELSE IF ByteLen(req.Password) < MinPasswordLen THEN ValidationError("password")
    ELSE NilErr

\* validateLoginRequest.
ValidateLoginRequest(req) ==
    IF TrimSpace(req.Email) = <<>> THEN ValidationError("email")
    ELSE IF req.Password = <<>> THEN ValidationError("password")
    ELSE NilErr

GetRequestedRole(requestedRole) == requestedRole

\* getDefaultRole.
GetDefaultRole(requestedRole) ==
    IF requestedRole = "admin" \/ requestedRole = "user" THEN requestedRole ELSE "user"

\* The domain.User Register builds before Create (ID and CreatedAt are set later).
BuildUser(req, at) ==
    [ID |-> 0, Email |-> ToLower(TrimSpace(req.Email)), Password |-> Hash(req.Password),
     Name |-> TrimSpace(req.Name), Role |-> GetDefaultRole(req.Role), Active |-> TRUE,
     CreatedAt |-> at]

\* ---- the repositories ----
MatchEmail(us, email) == { u \in us : u.Email = email }

\* First / FindOne: the matching row with the smallest key.
FirstOf(S) == CHOOSE u \in S : \A w \in S : u.ID <= w.ID

\* mongoUser.toDomainUser: the ID is derived from the creation timestamp;
\* the relational repository returns the row as it is.
DomainUser(d, row) == IF IsGorm(d) THEN row ELSE [row EXCEPT !.ID = row.CreatedAt]

GetByEmailFound(us, email) == MatchEmail(us, email) # {}

GetByEmail(d, us, email) == DomainUser(d, FirstOf(MatchEmail(us, email)))

GetByIDFoundOnAnyBackend(d, us, id) == \E u \in us : u.ID = id

\* GetByID: the relational repository finds the row by primary key; the
\* document repository always answers NotFound.
GetByIDFound(d, us, id) == IsGorm(d) /\ \E u \in us : u.ID = id

GetByID(us, id) == CHOOSE u \in us : u.ID = id

\* The text of the backend's error for a violated unique constraint.
UniqueViolationText(d) ==
    CASE d = "sqlite" -> <<"UNIQUE", "constraint", "failed", ":", "users.email">>
      [] d = "postgres" -> <<"ERROR", ":", "duplicate", "key", "value", "violates",
                             "unique", "constraint", "idx_users_email">>
      [] OTHER -> <<"E11000", "duplicate", "key", "error">>

\* isUniqueConstraintError.
IsUniqueConstraintError(text) ==
    LET errStr == ToLower(text)
    IN  \/ Contains(errStr, <<"duplicate", "key">>)
        \/ Contains(errStr, <<"violates", "unique", "constraint">>)
        \/ Contains(errStr, <<"unique", "constraint", "failed">>)
        \/ Contains(errStr, <<"constraint", "failed", ":", "unique">>)
        \/ Contains(errStr, <<"duplicate", "entry">>)

\* Whether the store rejects a second row with the same email: the users
\* table carries the unique index of the model's gorm tag; the users
\* collection only once the index of NewUserMongoRepository exists.
UniqueEnforced(d, idx) == IsGorm(d) \/ idx = "created"

\* The error Create returns for the user in the store us.
CreateErr(d, idx, us, user) ==
    IF UniqueEnforced(d, idx) /\ MatchEmail(us, user.Email) # {}
    THEN IF IsGorm(d)
         THEN IF IsUniqueConstraintError(UniqueViolationText(d))
              THEN ErrUserExists
              ELSE Err("DATABASE_ERROR")
         ELSE ErrUserExists
    ELSE NilErr

\* The row Create inserts and the user it hands back: the relational
\* repository keeps the CreatedAt of the caller and sets the primary key, the
\* document repository sets CreatedAt itself and derives the ID from it.
CreatedRow(d, user, key, t) ==
    IF IsGorm(d) THEN [user EXCEPT !.ID = key]
    ELSE [user EXCEPT !.ID = key, !.CreatedAt = t]

\* ---- the token service ----
\* GenerateToken: claims bound to the user, expiring Expiration from now.
GenerateToken(u, t, exp) ==
    [UserID |-> u.ID, Email |-> u.Email, Role |-> u.Role, ExpiresAt |-> t + exp,
     IssuedAt |-> t, Sig |-> "hs256"]

\* A token that was not signed with the secret.
Forge(tok) == [tok EXCEPT !.Sig = "forged"]

\* ValidateToken: the signature checks and the token is neither expired nor
\* used before its not-before time.
ValidateToken(tok, t) ==
    /\ tok.Sig = "hs256"
    /\ t < tok.ExpiresAt
    /\ tok.IssuedAt <= t

NeverTooFresh(tok, t) == FALSE

\* RefreshToken's test: time.Until(claims.ExpiresAt.Time) > time.Hour.
NotCloseToExpiration(tok, t) == tok.ExpiresAt - t > Hour

\* The error RefreshToken returns.
RefreshErr(tok, t) ==
    IF ~ValidateToken(tok, t) THEN ErrInvalidToken
    ELSE IF NotCloseToExpiration(tok, t) THEN Err("INVALID_VALUE")
    ELSE NilErr

\* The token RefreshToken issues: the same claims, a new expiration.
RefreshedToken(tok, t, exp) ==
    [tok EXCEPT !.ExpiresAt = t + exp, !.IssuedAt = t]

\* ---- Login ----
LoginOutcomeNoActiveCheck(d, us, req) ==
    IF ValidateLoginRequest(req) # NilErr
    THEN [err |-> ValidateLoginRequest(req), user |-> NoUser]
    ELSE LET email == ToLower(TrimSpace(req.Email))
         IN  IF ~GetByEmailFound(us, email)
             THEN [err |-> ErrInvalidPassword, user |-> NoUser]
             ELSE LET u == GetByEmail(d, us, email)
                  IN  IF ~CheckPassword(u.Password, req.Password)
                      THEN [err |-> ErrInvalidPassword, user |-> NoUser]
                      ELSE [err |-> NilErr, user |-> u]

\* userService.Login up to the token: the error it returns, or the user found.
LoginOutcome(d, us, req) ==
    IF ValidateLoginRequest(req) # NilErr
    THEN [err |-> ValidateLoginRequest(req), user |-> NoUser]
    ELSE LET email == ToLower(TrimSpace(req.Email))
         IN  IF ~GetByEmailFound(us, email)
             THEN [err |-> ErrInvalidPassword, user |-> NoUser]
             ELSE LET u == GetByEmail(d, us, email)
                  IN  IF ~u.Active
                      THEN [err |-> Err("FORBIDDEN"), user |-> NoUser]
                      ELSE IF ~CheckPassword(u.Password, req.Password)
                      THEN [err |-> ErrInvalidPassword, user |-> NoUser]
                      ELSE [err |-> NilErr, user |-> u]

\* ---- UpdateUser ----
UpdateErrNoRoleCheck(req) ==
    IF "Name" \in req.has /\ TrimSpace(req.Name) = <<>> THEN ValidationError("name")
    ELSE NilErr

\* The error of UpdateUser's field validation.
UpdateErr(req) ==
    IF "Name" \in req.has /\ TrimSpace(req.Name) = <<>> THEN ValidationError("name")
    ELSE IF "Role" \in req.has /\ req.Role # "user" /\ req.Role # "admin"
    THEN ValidationError("role")
    ELSE NilErr

\* The user UpdateUser saves.
UpdatedUser(u, req) ==
    [u EXCEPT !.Name = IF "Name" \in req.has THEN TrimSpace(req.Name) ELSE @,
              !.Role = IF "Role" \in req.has THEN req.Role ELSE @,
              !.Active = IF "Active" \in req.has THEN req.Active ELSE @]

\* ---- the state of the calls ----
Normalize(email) == ToLower(TrimSpace(email))

NormEmails == { Normalize(e) : e \in RawEmails } \ { <<>> }

IdleCall == [pc |-> "idle"]

NoResult == [op |-> "none", req |-> [none |-> TRUE], err |-> NilErr,
             out |-> NoUser, taken |-> FALSE, at |-> 0]

Result(op, req, err, out, taken, t) ==
    [op |-> op, req |-> req, err |-> err, out |-> out, taken |-> taken, at |-> t]

RECURSIVE SumLen(_, _)
SumLen(f, S) ==
    IF S = {} THEN 0
    ELSE LET e == CHOOSE x \in S : TRUE IN Len(f[e]) + SumLen(f, S \ {e})

\* The Register calls that passed validation: finished or in flight.
RegistersStarted ==
    SumLen(regDone, NormEmails) + Cardinality({ c \in Clients : calls[c].pc = "create" })

\* ---- userService.Register ----
\* validateCreateRequest rejects the request.
RegisterInvalid(c, req) ==
    /\ calls[c].pc = "idle"
    /\ ValidateCreateRequest(req) # NilErr
    /\ last' = Result("Register", req, ValidateCreateRequest(req), NoUser, FALSE, now)
    /\ UNCHANGED <<driver, expiration, users, nextID, emailIndex, now, tokens, calls,
                   regDone, overlapped, fxUsers, ops,
                   migVars, tableVars>>

\* GetByEmail with the email of the request finds a user.
RegisterPrecheckHit(c, req) ==
    /\ calls[c].pc = "idle"
    /\ RegistersStarted < MaxRegisters
    /\ ValidateCreateRequest(req) = NilErr
    /\ GetByEmailFound(users, req.Email)
    /\ last' = Result("Register", req, ErrUserExists, NoUser, TRUE, now)
    /\ regDone' = [regDone EXCEPT ![Normalize(req.Email)] = Append(@, ErrUserExists)]
    /\ overlapped' = (overlapped \/ \E o \in Clients \ {c} : calls[o].pc = "create")
    /\ UNCHANGED <<driver, expiration, users, nextID, emailIndex, now, tokens, calls,
                   fxUsers, ops,
                   migVars, tableVars>>

\* GetByEmail answers NotFound: the user is built and its password hashed.
RegisterPrecheckMiss(c, req) ==
    /\ calls[c].pc = "idle"
    /\ RegistersStarted < MaxRegisters
    /\ ValidateCreateRequest(req) = NilErr
    /\ ~GetByEmailFound(users, req.Email)
    /\ calls' = [calls EXCEPT ![c] = [pc |-> "create", req |-> req,
                                      user |-> BuildUser(req, now)]]
    /\ overlapped' = (overlapped \/ \E o \in Clients \ {c} : calls[o].pc = "create")
    /\ UNCHANGED <<driver, expiration, users, nextID, emailIndex, now, tokens, last,
                   regDone, fxUsers, ops,
                   migVars, tableVars>>

\* userRepo.Create and the return of Register.
RegisterCreate(c) ==
    /\ calls[c].pc = "create"
    /\ LET user == calls[c].user
           err == CreateErr(driver, emailIndex, users, user)
           row == CreatedRow(driver, user, nextID, now)
           taken == MatchEmail(users, user.Email) # {}
       IN  /\ users' = IF err = NilErr THEN users \cup {row} ELSE users
           /\ nextID' = IF err = NilErr THEN nextID + 1 ELSE nextID
           /\ last' = Result("Register", calls[c].req, err,
                             IF err = NilErr THEN ToResponse(DomainUser(driver, row))
                             ELSE NoUser,
                             taken, now)
           /\ regDone' = [regDone EXCEPT ![user.Email] = Append(@, err)]
    /\ calls' = [calls EXCEPT ![c] = IdleCall]
    /\ UNCHANGED <<driver, expiration, emailIndex, now, tokens, overlapped, fxUsers, ops,
                   migVars, tableVars>>

\* ---- userService.Login ----
Login(req) ==
    LET o == LoginOutcome(driver, users, req)
        tok == IF o.err = NilErr THEN GenerateToken(o.user, now, expiration) ELSE NoToken
    IN  /\ last' = Result("Login", req, o.err,
                          [token |-> tok,
                           user |-> IF o.err = NilErr THEN ToResponse(o.user) ELSE NoUser],
                          FALSE, now)
        /\ tokens' = IF o.err = NilErr /\ Cardinality(tokens) < MaxTokens
                     THEN tokens \cup {tok} ELSE tokens
        /\ UNCHANGED <<driver, expiration, users, nextID, emailIndex, now, calls,
                       regDone, overlapped, fxUsers, ops,
                   migVars, tableVars>>

\* ---- userService.UpdateUser ----
UpdateUser(id, req) ==
    /\ IF ~GetByIDFound(driver, users, id)
       THEN /\ last' = Result("UpdateUser", req, ErrUserNotFound, NoUser, FALSE, now)
            /\ users' = users
       ELSE IF UpdateErr(req) # NilErr
       THEN /\ last' = Result("UpdateUser", req, UpdateErr(req), NoUser, FALSE, now)
            /\ users' = users
       ELSE LET u == UpdatedUser(GetByID(users, id), req)
            IN  /\ users' = (users \ {GetByID(users, id)}) \cup {u}
                /\ last' = Result("UpdateUser", req, NilErr, ToResponse(u), FALSE, now)
    /\ UNCHANGED <<driver, expiration, nextID, emailIndex, now, tokens, calls, regDone,
                   overlapped, fxUsers, ops,
                   migVars, tableVars>>

\* ---- the index goroutine of NewUserMongoRepository ----
\* CreateOne builds the unique index: possible only while no two documents
\* share an email.
CreateIndexOk ==
    /\ emailIndex = "pending"
    /\ \A u, w \in users : u.Email = w.Email => u = w
    /\ emailIndex' = "created"
    /\ UNCHANGED <<driver, expiration, users, nextID, now, tokens, calls, last, regDone,
                   overlapped, fxUsers, ops,
                   migVars, tableVars>>

\* CreateOne fails (duplicates, timeout, connection): a warning is printed.
CreateIndexFail ==
    /\ emailIndex = "pending"
    /\ emailIndex' = "failed"
    /\ UNCHANGED <<driver, expiration, users, nextID, now, tokens, calls, last, regDone,
                   overlapped, fxUsers, ops,
                   migVars, tableVars>>

\* ---- time and authService.RefreshToken ----
Tick ==
    /\ now < MaxTime
    /\ now' = now + 1
    /\ UNCHANGED <<driver, expiration, users, nextID, emailIndex, tokens, calls, last,
                   regDone, overlapped, fxUsers, ops,
                   migVars, tableVars>>

RefreshToken(tok) ==
    LET err == RefreshErr(tok, now)
        new == IF err = NilErr THEN RefreshedToken(tok, now, expiration) ELSE NoToken
    IN  /\ last' = Result("RefreshToken", tok, err, [token |-> new], FALSE, now)
        /\ tokens' = IF err = NilErr /\ Cardinality(tokens) < MaxTokens
                     THEN tokens \cup {new} ELSE tokens
        /\ UNCHANGED <<driver, expiration, users, nextID, emailIndex, now, calls,
                       regDone, overlapped, fxUsers, ops,
                   migVars, tableVars>>

(***************************************************************************)
(* The repository interface: Update, Delete, List and Search.              *)
(***************************************************************************)

\* Bounds of the model.
MaxOps == 2

\* The ids, offsets and limits the calls are given.
Ids == 0..2

Offsets == { -1, 0, 1 }

Limits == { -1, 0, 1 }

Queries == { <<"A">>, <<"z">> }

BlankQueries == { <<>>, <<" ">> }

Abs(n) == IF n < 0 THEN -n ELSE n

\* The users the repository is handed by its callers.
RepoUser(id, email, active) ==
    [ID |-> id, Email |-> email, Password |-> Hash(PwGood),
     Name |-> IF email = <<"a">> THEN <<"A", "l">> ELSE <<"B", "o">>,
     Role |-> "user", Active |-> active, CreatedAt |-> 0]

RepoUsers(ids) ==
    { RepoUser(id, email, active) :
          id \in ids, email \in { <<"a">>, <<"b">> }, active \in BOOLEAN }

\* ---- Update ----
\* gorm's Save: an UPDATE of every column by primary key and, when no row was
\* affected (or the key is zero), an INSERT of the row.  A unique-index
\* violation is returned as AlreadyExists.
GormSaveErr(d, us, user) ==
    IF \E w \in us : w.Email = user.Email /\ (user.ID = 0 \/ w.ID # user.ID)
    THEN IF IsUniqueConstraintError(UniqueViolationText(d))
         THEN ErrUserExists ELSE Err("DATABASE_ERROR")
    ELSE NilErr

GormSaveStore(us, user, key) ==
    IF user.ID = 0 THEN us \cup { [user EXCEPT !.ID = key] }
    ELSE { w \in us : w.ID # user.ID } \cup { user }

\* userMongoRepository.Update: UpdateOne by email sets name, role and active
\* of the first document matched; no document matched is NotFound.
MongoUpdateErr(us, user) ==
    IF MatchEmail(us, user.Email) = {} THEN ErrUserNotFound ELSE NilErr

MongoUpdateReplaces(us, user) ==
    (us \ { FirstOf(MatchEmail(us, user.Email)) }) \cup
        { [user EXCEPT !.ID = FirstOf(MatchEmail(us, user.Email)).ID] }

\* The collection after an Update that matched a document.
MongoUpdateStore(us, user) ==
    LET doc == FirstOf(MatchEmail(us, user.Email))
    IN  (us \ {doc}) \cup { [doc EXCEPT !.Name = user.Name, !.Role = user.Role,
                                        !.Active = user.Active] }

\* The error userRepo.Update returns.
RepoUpdateErr(d, us, user) ==
    IF IsGorm(d) THEN GormSaveErr(d, us, user) ELSE MongoUpdateErr(us, user)

\* The store after userRepo.Update.
RepoUpdateStore(d, us, user, key) ==
    IF RepoUpdateErr(d, us, user) # NilErr THEN us
    ELSE IF IsGorm(d) THEN GormSaveStore(us, user, key)
    ELSE MongoUpdateStore(us, user)

\* The next primary key after userRepo.Update: an INSERT of Save uses one.
RepoUpdateKey(d, us, user, key) ==
    IF IsGorm(d) /\ RepoUpdateErr(d, us, user) = NilErr
    THEN (IF user.ID = 0 THEN key + 1
          ELSE IF user.ID >= key THEN user.ID + 1 ELSE key)
    ELSE key

\* ---- GetByID and Delete ----
RepoGetByIDErr(d, us, id) == IF GetByIDFound(d, us, id) THEN NilErr ELSE ErrUserNotFound

\* userGormRepository.Delete removes the row with the primary key; the
\* document repository's Delete and a Delete of no row return NotFound.
RepoDeleteErr(d, us, id) ==
    IF IsGorm(d) /\ (\E u \in us : u.ID = id) THEN NilErr ELSE ErrUserNotFound

DeleteKeepsRow(d, us, id) == us

\* The store after a Delete that returned no error.
RepoDeleteStore(d, us, id) ==
    IF IsGorm(d) THEN { u \in us : u.ID # id } ELSE us

\* ---- List and Search ----
\* The filter of List: none in the relational repository, active = true in
\* the document repository.
ListFilter(d, us) == IF IsGorm(d) THEN us ELSE { u \in us : u.Active }

\* A case-insensitive substring match (ILIKE '%q%', regex with option i).
MatchesQuery(u, q) ==
    \/ Contains(ToLower(u.Name), ToLower(q))
    \/ Contains(ToLower(u.Email), ToLower(q))

SearchFilter(d, us, q) == { u \in ListFilter(d, us) : MatchesQuery(u, q) }

\* The orders ORDER BY created_at DESC / sort {created_at: -1} may produce.
Orders(S) ==
    { ord \in [1..Cardinality(S) -> S] :
          /\ \A i, j \in DOMAIN ord : i # j => ord[i] # ord[j]
          /\ \A i, j \in DOMAIN ord : i < j => ord[i].CreatedAt >= ord[j].CreatedAt }

Drop(ord, n) == SubSeq(ord, n + 1, Len(ord))

Take(ord, n) == SubSeq(ord, 1, MinOf(n, Len(ord)))

\* gorm's Offset and Limit: an offset that is not positive and a limit that
\* is negative add no clause; a limit of zero adds LIMIT 0 or no clause,
\* depending on the gorm release (zeroIsNone).
GormPage(ord, offset, limit, zeroIsNone) ==
    LET rest == IF offset > 0 THEN Drop(ord, offset) ELSE ord
    IN  IF limit < 0 \/ (limit = 0 /\ zeroIsNone) THEN rest ELSE Take(rest, limit)

\* The driver's SetSkip and SetLimit: a limit of zero is no limit and a
\* negative limit returns that many documents in one batch.
MongoPage(ord, offset, limit) ==
    IF limit = 0 THEN Drop(ord, offset) ELSE Take(Drop(ord, offset), Abs(limit))

\* The page of the ordered matches a call returns.
Page(d, ord, offset, limit, zeroIsNone) ==
    IF IsGorm(d) THEN GormPage(ord, offset, limit, zeroIsNone)
    ELSE MongoPage(ord, offset, limit)

\* The error of a page query: the document store rejects a negative skip.
PageErr(d, offset) ==
    IF ~IsGorm(d) /\ offset < 0 THEN Err("DATABASE_ERROR") ELSE NilErr

\* The error of Search: sqlite has no ILIKE operator, the statement fails.
SearchErr(d, offset) ==
    IF d = "sqlite" THEN Err("DATABASE_ERROR") ELSE PageErr(d, offset)

NoPage == [users |-> <<>>, total |-> 0]

\* What List may return: (users, total, err).
ListOutcomes(d, us, offset, limit, zeroIsNone) ==
    IF PageErr(d, offset) # NilErr
    THEN { [err |-> PageErr(d, offset), page |-> NoPage] }
    ELSE { [err |-> NilErr,
            page |-> [users |-> Page(d, ord, offset, limit, zeroIsNone),
                      total |-> Cardinality(ListFilter(d, us))]] :
               ord \in Orders(ListFilter(d, us)) }

\* What Search may return.
SearchOutcomes(d, us, q, offset, limit, zeroIsNone) ==
    IF SearchErr(d, offset) # NilErr
    THEN { [err |-> SearchErr(d, offset), page |-> NoPage] }
    ELSE { [err |-> NilErr,
            page |-> [users |-> Page(d, ord, offset, limit, zeroIsNone),
                      total |-> Cardinality(SearchFilter(d, us, q))]] :
               ord \in Orders(SearchFilter(d, us, q)) }

\* The readings of a limit of zero the gorm releases have.
ZeroLimits(limit) == IF limit = 0 THEN BOOLEAN ELSE { FALSE }

\* ---- the calls of the repository ----
PageRequest(q, offset, limit, zeroIsNone) ==
    [Query |-> q, Offset |-> offset, Limit |-> limit, ZeroIsNone |-> zeroIsNone]

RepoCreate(user) ==
    /\ ops < MaxOps
    /\ ops' = ops + 1
    /\ LET err == CreateErr(driver, emailIndex, users, user)
           row == CreatedRow(driver, user, nextID, now)
       IN  /\ users' = IF err = NilErr THEN users \cup {row} ELSE users
           /\ nextID' = IF err = NilErr THEN nextID + 1 ELSE nextID
           /\ last' = Result("Create", user, err, NoUser, FALSE, now)
    /\ UNCHANGED <<driver, expiration, emailIndex, now, tokens, calls, regDone,
                   overlapped, fxUsers, migVars, tableVars>>

RepoGetByID(id) ==
    /\ last' = Result("GetByID", [ID |-> id], RepoGetByIDErr(driver, users, id),
                      IF GetByIDFound(driver, users, id) THEN GetByID(users, id)
                      ELSE NoUser,
                      FALSE, now)
    /\ UNCHANGED <<driver, expiration, users, nextID, emailIndex, now, tokens, calls,
                   regDone, overlapped, fxUsers, ops, migVars, tableVars>>

RepoUpdate(user) ==
    /\ ops < MaxOps
    /\ ops' = ops + 1
    /\ users' = RepoUpdateStore(driver, users, user, nextID)
    /\ nextID' = RepoUpdateKey(driver, users, user, nextID)
    /\ last' = Result("Update", user, RepoUpdateErr(driver, users, user), NoUser,
                      FALSE, now)
    /\ UNCHANGED <<driver, expiration, emailIndex, now, tokens, calls, regDone,
                   overlapped, fxUsers, migVars, tableVars>>

RepoDelete(id) ==
    /\ ops < MaxOps
    /\ ops' = ops + 1
    /\ users' = IF RepoDeleteErr(driver, users, id) = NilErr
                THEN RepoDeleteStore(driver, users, id) ELSE users
    /\ last' = Result("Delete", [ID |-> id], RepoDeleteErr(driver, users, id), NoUser,
                      FALSE, now)
    /\ UNCHANGED <<driver, expiration, nextID, emailIndex, now, tokens, calls, regDone,
                   overlapped, fxUsers, migVars, tableVars>>

RepoList(offset, limit, zeroIsNone) ==
    /\ \E o \in ListOutcomes(driver, users, offset, limit, zeroIsNone) :
           last' = Result("List", PageRequest(<<>>, offset, limit, zeroIsNone), o.err,
                          o.page, FALSE, now)
    /\ UNCHANGED <<driver, expiration, users, nextID, emailIndex, now, tokens, calls,
                   regDone, overlapped, fxUsers, ops, migVars, tableVars>>

RepoSearch(q, offset, limit, zeroIsNone) ==
    /\ \E o \in SearchOutcomes(driver, users, q, offset, limit, zeroIsNone) :
           last' = Result("Search", PageRequest(q, offset, limit, zeroIsNone), o.err,
                          o.page, FALSE, now)
    /\ UNCHANGED <<driver, expiration, users, nextID, emailIndex, now, tokens, calls,
                   regDone, overlapped, fxUsers, ops, migVars, tableVars>>

(***************************************************************************)
(* The user service: profile, administration, listing.                     *)
(***************************************************************************)

\* ---- GetProfile and GetUser ----
GetProfile(userID) ==
    /\ last' = Result("GetProfile", [ID |-> userID],
                      RepoGetByIDErr(driver, users, userID),
                      IF GetByIDFound(driver, users, userID)
                      THEN ToResponse(GetByID(users, userID)) ELSE NoUser,
                      FALSE, now)
    /\ UNCHANGED <<driver, expiration, users, nextID, emailIndex, now, tokens, calls,
                   regDone, overlapped, fxUsers, ops, migVars, tableVars>>

GetUser(id) ==
    /\ last' = Result("GetUser", [ID |-> id], RepoGetByIDErr(driver, users, id),
                      IF GetByIDFound(driver, users, id)
                      THEN ToResponse(GetByID(users, id)) ELSE NoUser,
                      FALSE, now)
    /\ UNCHANGED <<driver, expiration, users, nextID, emailIndex, now, tokens, calls,
                   regDone, overlapped, fxUsers, ops, migVars, tableVars>>

\* ---- UpdateProfile ----
\* The error of UpdateProfile's field validation.
ProfileErr(req) ==
    IF "Name" \in req.has /\ TrimSpace(req.Name) = <<>> THEN ValidationError("name")
    ELSE NilErr

\* The user UpdateProfile saves: only the name of the request is used.
ProfileUser(u, req) ==
    [u EXCEPT !.Name = IF "Name" \in req.has THEN TrimSpace(req.Name) ELSE @]

\* UpdateProfile up to its call of userRepo.Update: GetByID and the fields.
UpdateProfileRead(c, userID, req) ==
    /\ calls[c].pc = "idle"
    /\ ops < MaxOps
    /\ IF ~GetByIDFound(driver, users, userID)
       THEN /\ last' = Result("UpdateProfile", req, RepoGetByIDErr(driver, users, userID),
                              NoUser, FALSE, now)
            /\ calls' = calls
       ELSE IF ProfileErr(req) # NilErr
       THEN /\ last' = Result("UpdateProfile", req, ProfileErr(req), NoUser, FALSE, now)
            /\ calls' = calls
       ELSE /\ calls' = [calls EXCEPT ![c] =
                            [pc |-> "update", req |-> req,
                             user |-> ProfileUser(GetByID(users, userID), req)]]
            /\ last' = last
    /\ UNCHANGED <<driver, expiration, users, nextID, emailIndex, now, tokens, regDone,
                   overlapped, fxUsers, ops, migVars, tableVars>>

\* userRepo.Update and the return of UpdateProfile.
UpdateProfileWrite(c) ==
    /\ calls[c].pc = "update"
    /\ LET user == calls[c].user
           err == RepoUpdateErr(driver, users, user)
       IN  /\ users' = RepoUpdateStore(driver, users, user, nextID)
           /\ nextID' = RepoUpdateKey(driver, users, user, nextID)
           /\ last' = Result("UpdateProfile", calls[c].req, err,
                             IF err = NilErr THEN ToResponse(user) ELSE NoUser,
                             \E u \in users : u.ID = user.ID, now)
    /\ calls' = [calls EXCEPT ![c] = IdleCall]
    /\ ops' = ops + 1
    /\ UNCHANGED <<driver, expiration, emailIndex, now, tokens, regDone, overlapped,
                   fxUsers, migVars, tableVars>>

\* ---- DeleteUser ----
DeleteUser(id) ==
    /\ ops < MaxOps
    /\ ops' = ops + 1
    /\ LET err == IF ~GetByIDFound(driver, users, id)
                  THEN RepoGetByIDErr(driver, users, id)
                  ELSE RepoDeleteErr(driver, users, id)
       IN  /\ users' = IF err = NilErr THEN RepoDeleteStore(driver, users, id) ELSE users
           /\ last' = Result("DeleteUser", [ID |-> id], err, NoUser, FALSE, now)
    /\ UNCHANGED <<driver, expiration, nextID, emailIndex, now, tokens, calls, regDone,
                   overlapped, fxUsers, migVars, tableVars>>

\* ---- ListUsers and SearchUsers ----
\* The responses of a page and the repository method that produced it.
ServicePage(o, method) ==
    [err |-> o.err,
     page |-> [users |-> [i \in DOMAIN o.page.users |-> ToResponse(o.page.users[i])],
               total |-> o.page.total,
               repo |-> method]]

\* What ListUsers may return.
ListUsersOutcomes(d, us, offset, limit, zeroIsNone) ==
    { ServicePage(o, "List") : o \in ListOutcomes(d, us, offset, limit, zeroIsNone) }

SearchUsersAlwaysSearches(d, us, q, offset, limit, zeroIsNone) ==
    { ServicePage(o, "Search") :
          o \in SearchOutcomes(d, us, q, offset, limit, zeroIsNone) }

\* What SearchUsers may return: a blank query is ListUsers.
SearchUsersOutcomes(d, us, q, offset, limit, zeroIsNone) ==
    IF TrimSpace(q) = <<>> THEN ListUsersOutcomes(d, us, offset, limit, zeroIsNone)
    ELSE { ServicePage(o, "Search") :
               o \in SearchOutcomes(d, us, q, offset, limit, zeroIsNone) }

ListUsers(offset, limit, zeroIsNone) ==
    /\ \E o \in ListUsersOutcomes(driver, users, offset, limit, zeroIsNone) :
           last' = Result("ListUsers", PageRequest(<<>>, offset, limit, zeroIsNone),
                          o.err, o.page, FALSE, now)
    /\ UNCHANGED <<driver, expiration, users, nextID, emailIndex, now, tokens, calls,
                   regDone, overlapped, fxUsers, ops, migVars, tableVars>>

SearchUsers(q, offset, limit, zeroIsNone) ==
    /\ \E o \in SearchUsersOutcomes(driver, users, q, offset, limit, zeroIsNone) :
           last' = Result("SearchUsers", PageRequest(q, offset, limit, zeroIsNone),
                          o.err, o.page, FALSE, now)
    /\ UNCHANGED <<driver, expiration, users, nextID, emailIndex, now, tokens, calls,
                   regDone, overlapped, fxUsers, ops, migVars, tableVars>>

(***************************************************************************)
(* The table prefix of the domain package.                                 *)
(***************************************************************************)

\* Bounds of the model.
MaxSets == 3

\* The prefixes Config.Database.TablePrefix takes in the model.
Prefixes == { <<>>, <<"fx_">>, <<"app_">> }

TableNames == { <<"users">> }

NoCall == [pc |-> "idle", arg |-> <<>>]

\* Before any call: tablePrefix is the empty string, the Once is fresh.
TableIdle ==
    /\ tablePrefix = <<>>
    /\ once = "fresh"
    /\ setters = [call |-> [c \in Clients |-> NoCall], calls |-> 0,
                  took |-> [set |-> FALSE, arg |-> <<>>]]

OnceAlwaysFresh(o) == TRUE

\* once.Do runs its function for the first call only.
OnceFresh(o) == o = "fresh"

\* SetTablePrefix enters once.Do: the first call runs the function, a call
\* that arrives while it runs waits for it, a later call returns.
SetTablePrefix(c, prefix) ==
    /\ setters.call[c].pc = "idle"
    /\ setters.calls < MaxSets
    /\ IF OnceFresh(once)
       THEN /\ once' = "running"
            /\ setters' = [setters EXCEPT !.call[c] = [pc |-> "writing", arg |-> prefix],
                                          !.calls = @ + 1]
       ELSE /\ once' = once
            /\ setters' = [setters EXCEPT
                             !.call[c] = IF once = "running"
                                         THEN [pc |-> "waiting", arg |-> prefix]
                                         ELSE NoCall,
                             !.calls = @ + 1]
    /\ UNCHANGED <<tablePrefix, migVars, userVars>>

\* The function of once.Do: tablePrefix = prefix.
SetWrite(c) ==
    /\ setters.call[c].pc = "writing"
    /\ tablePrefix' = setters.call[c].arg
    /\ setters' = [setters EXCEPT !.call[c].pc = "written",
                                  !.took = [set |-> TRUE, arg |-> setters.call[c].arg]]
    /\ UNCHANGED <<once, migVars, userVars>>

\* once.Do marks the Once done and returns.
SetReturn(c) ==
    /\ setters.call[c].pc = "written"
    /\ once' = "done"
    /\ setters' = [setters EXCEPT !.call[c] = NoCall]
    /\ UNCHANGED <<tablePrefix, migVars, userVars>>

\* A call that waited in once.Do returns once the function has run.
SetWake(c) ==
    /\ setters.call[c].pc = "waiting"
    /\ once = "done"
    /\ setters' = [setters EXCEPT !.call[c] = NoCall]
    /\ UNCHANGED <<tablePrefix, once, migVars, userVars>>

\* A write of tablePrefix is in progress: GetTablePrefix reads the variable
\* without synchronization, so a read at this time races with the write.
WriteInProgress == \E c \in Clients : setters.call[c].pc = "writing"

\* What a read of tablePrefix may see: the variable or, when it races with
\* the write, the value being written or a torn string.
ReadsOfPrefix ==
    IF WriteInProgress
    THEN { tablePrefix, <<"torn">> } \cup
         { setters.call[c].arg : c \in { w \in Clients : setters.call[w].pc = "writing" } }
    ELSE { tablePrefix }

GetTablePrefix ==
    /\ \E read \in ReadsOfPrefix :
           last' = Result("GetTablePrefix", [raced |-> WriteInProgress], NilErr, read,
                          setters.took.set, now)
    /\ UNCHANGED <<driver, expiration, users, nextID, emailIndex, now, tokens, calls,
                   regDone, overlapped, fxUsers, ops, migVars, tableVars>>

GetTableName(tableName) ==
    /\ \E read \in ReadsOfPrefix :
           last' = Result("GetTableName", [raced |-> WriteInProgress, name |-> tableName],
                          NilErr, IF read = <<>> THEN tableName ELSE read \o tableName,
                          setters.took.set, now)
    /\ UNCHANGED <<driver, expiration, users, nextID, emailIndex, now, tokens, calls,
                   regDone, overlapped, fxUsers, ops, migVars, tableVars>>

(***************************************************************************)
(* The seeders, RunMigrations and the modes of the migrate command.        *)
(***************************************************************************)

\* Bounds of the model.
MaxReports == 2

\* The values APP_ENV takes in the model.
Envs == { "development", "staging", "production" }

\* RegisterSeeders: the seeders in the order they are added.
RegisteredSeeders == << "AdminUserSeeder", "TestUsersSeeder" >>

ShouldRunAlways(name, env) == TRUE

\* AdminUserSeeder.ShouldRun and TestUsersSeeder.ShouldRun.
ShouldRun(name, env) ==
    IF name = "AdminUserSeeder" THEN env = "development" \/ env = "staging"
    ELSE env = "development"

\* A user as a seeder builds it, its password hashed.
SeedUser(email, password, name, role, active, t) ==
    [ID |-> 0, Email |-> <<email>>, Password |-> Hash(<<password>>), Name |-> <<name>>,
     Role |-> role, Active |-> active, CreatedAt |-> t]

\* The users AdminUserSeeder.Run and TestUsersSeeder.Run build, in order.
SeederUsers(name, t) ==
    IF name = "AdminUserSeeder"
    THEN << SeedUser("admin@example.com", "admin123456", "System Administrator",
                     "admin", TRUE, t) >>
    ELSE << SeedUser("user1@example.com", "password123", "Test User One", "user", TRUE, t),
            SeedUser("user2@example.com", "password123", "Test User Two", "user", TRUE, t),
            SeedUser("moderator@example.com", "password123", "Test Moderator",
                     "moderator", TRUE, t),
            SeedUser("inactive@example.com", "password123", "Inactive User", "user",
                     FALSE, t) >>

SeedIntoAlwaysInserts(store, list, key) ==
    store \cup { [list[i] EXCEPT !.ID = key + i - 1] : i \in DOMAIN list }

\* seedSQL / seedMongo: each user is skipped if its email is in the store and
\* inserted under the next key otherwise.
RECURSIVE SeedInto(_, _, _)
SeedInto(store, list, key) ==
    IF list = <<>> THEN store
    ELSE IF MatchEmail(store, Head(list).Email) # {}
         THEN SeedInto(store, Tail(list), key)
         ELSE SeedInto(store \cup { [Head(list) EXCEPT !.ID = key] }, Tail(list), key + 1)

\* The key after the largest one of a store.
NextKey(store) == Cardinality(store) + 1

\* RunMigrations: Migrate returned nil, Seed(ctx, env) is entered.
SeedStart(r, env) ==
    /\ mig[r].pc = "returned"
    /\ mig[r].err = NoErr
    /\ mig[r].seed = "none"
    /\ mig[r].runs > 0
    /\ mig' = [mig EXCEPT ![r].pc = "seed", ![r].seed = "started", ![r].env = env,
                          ![r].si = 1]
    /\ UNCHANGED <<ledger, upDone, userVars, tableVars>>

CurrentSeeder(r) == RegisteredSeeders[mig[r].si]

InSeedLoop(r) == mig[r].pc = "seed" /\ mig[r].si <= Len(RegisteredSeeders)

\* Seed: the seeder does not run in this environment, continue.
SeedSkip(r) ==
    /\ InSeedLoop(r)
    /\ ~ShouldRun(CurrentSeeder(r), mig[r].env)
    /\ mig' = [mig EXCEPT ![r].si = @ + 1]
    /\ UNCHANGED <<ledger, upDone, userVars, tableVars>>

\* Seed: seeder.Run returns nil; with a relational connection it wrote the
\* users table, with a MongoDB connection the fx_users collection.
SeedRunOk(r) ==
    /\ InSeedLoop(r)
    /\ ShouldRun(CurrentSeeder(r), mig[r].env)
    /\ mig' = [mig EXCEPT ![r].si = @ + 1, ![r].ran = Append(@, CurrentSeeder(r))]
    /\ IF IsGorm(driver)
       THEN /\ users' = SeedInto(users, SeederUsers(CurrentSeeder(r), now), nextID)
            /\ nextID' = nextID + Cardinality(users') - Cardinality(users)
            /\ fxUsers' = fxUsers
       ELSE /\ fxUsers' = SeedInto(fxUsers, SeederUsers(CurrentSeeder(r), now),
                                   NextKey(fxUsers))
            /\ UNCHANGED <<users, nextID>>
    /\ UNCHANGED <<ledger, upDone, driver, expiration, emailIndex, now, tokens, calls,
                   last, regDone, overlapped, ops, tableVars>>

\* Seed: seeder.Run returns an error before writing: Seed returns
\* "seeder <name> failed".
SeedRunFail(r) ==
    /\ InSeedLoop(r)
    /\ ShouldRun(CurrentSeeder(r), mig[r].env)
    /\ mig' = [mig EXCEPT ![r].pc = "returned", ![r].seed = "done",
                          ![r].ran = Append(@, CurrentSeeder(r)),
                          ![r].err = MigErr("seeder_failed", <<>>)]
    /\ UNCHANGED <<ledger, upDone, userVars, tableVars>>

\* Seed: the loop is over, Seed and RunMigrations return nil.
SeedReturn(r) ==
    /\ mig[r].pc = "seed"
    /\ mig[r].si > Len(RegisteredSeeders)
    /\ mig' = [mig EXCEPT ![r].pc = "returned", ![r].seed = "done", ![r].err = NoErr]
    /\ UNCHANGED <<ledger, upDone, userVars, tableVars>>

\* One pass of the loop of Seed whose seeder runs in the environment and
\* returns nil, without the bookkeeping of the runner.
SeederRun(name, env) ==
    /\ ShouldRun(name, env)
    /\ ops < MaxOps
    /\ ops' = ops + 1
    /\ IF IsGorm(driver)
       THEN /\ users' = SeedInto(users, SeederUsers(name, now), nextID)
            /\ nextID' = nextID + Cardinality(users') - Cardinality(users)
            /\ fxUsers' = fxUsers
       ELSE /\ fxUsers' = SeedInto(fxUsers, SeederUsers(name, now), NextKey(fxUsers))
            /\ UNCHANGED <<users, nextID>>
    /\ last' = Result("Seed", [Name |-> name], NilErr, NoUser, FALSE, now)
    /\ UNCHANGED <<driver, expiration, emailIndex, now, tokens, calls, regDone,
                   overlapped, migVars, tableVars>>

\* The versions checkPendingMigrations prints: the registered migrations, in
\* registration order, that the ledger does not hold.
PendingOf(ms, l) == SelectSeq(ms, LAMBDA v : v \notin ExecutedVersions(l))

\* The seeders showPendingMigrations prints as "Would run".
WouldRun(env) == SelectSeq(RegisteredSeeders, LAMBDA n : ShouldRun(n, env))

\* showPendingMigrations: APP_ENV, "development" when it is empty.
DryRunEnv(appEnv) == IF appEnv = "" THEN "development" ELSE appEnv

CheckPendingApplies(r, mode, env) ==
    /\ AtRest(r)
    /\ mig[r].reports < MaxReports
    /\ ledger' = ledger \o PendingOf(mig[r].migrations, ledger)
    /\ mig' = [mig EXCEPT
                 ![r].reports = @ + 1,
                 ![r].report = [mode |-> mode,
                                pending |-> PendingOf(mig[r].migrations, ledger),
                                seeders |-> IF mode = "dry-run" THEN WouldRun(DryRunEnv(env))
                                            ELSE <<>>,
                                err |-> NoErr]]
    /\ UNCHANGED <<upDone, userVars, tableVars>>

\* The -check and -dry-run modes: checkPendingMigrations, and for -dry-run
\* the seeders that would run.
CheckPending(r, mode, env) ==
    /\ AtRest(r)
    /\ mig[r].reports < MaxReports
    /\ mig' = [mig EXCEPT
                 ![r].reports = @ + 1,
                 ![r].report = [mode |-> mode,
                                pending |-> PendingOf(mig[r].migrations, ledger),
                                seeders |-> IF mode = "dry-run" THEN WouldRun(DryRunEnv(env))
                                            ELSE <<>>,
                                err |-> NoErr]]
    /\ UNCHANGED <<ledger, upDone, userVars, tableVars>>

\* EnsureMigrationTracking or GetExecutedMigrations fails: nothing is
\* reported and the command exits with the error.
CheckPendingFail(r, mode) ==
    /\ AtRest(r)
    /\ mig[r].reports < MaxReports
    /\ mig' = [mig EXCEPT
                 ![r].reports = @ + 1,
                 ![r].report = [mode |-> mode, pending |-> <<>>, seeders |-> <<>>,
                                err |-> MigErr("check_failed", <<>>)]]
    /\ UNCHANGED <<ledger, upDone, userVars, tableVars>>

(***************************************************************************)
(* Specifications.                                                         *)
(***************************************************************************)

\* The user store before any call: an empty table or collection.
UsersIdle ==
    /\ expiration = 2 * Hour
    /\ users = {}
    /\ nextID = 1
    /\ now = 0
    /\ tokens = {}
    /\ calls = [c \in Clients |-> IdleCall]
    /\ last = NoResult
    /\ regDone = [e \in NormEmails |-> <<>>]
    /\ overlapped = FALSE
    /\ fxUsers = {}
    /\ ops = 0

MigratorIdle ==
    /\ ledger = <<>>
    /\ upDone = [v \in Versions |-> 0]
    /\ mig = [r \in Runners |-> IdleRunner]

\* The migration runner against one database.
InitMigrate ==
    /\ MigratorIdle
    /\ TableIdle
    /\ driver = "sqlite"
    /\ emailIndex = "created"
    /\ UsersIdle

NextMigrate ==
    \/ \E v \in Versions : AddMigration("r1", v)
    \/ MigrateSort("r1")
    \/ EnsureTrackingOk("r1")
    \/ EnsureTrackingFail("r1")
    \/ GetExecutedOk("r1")
    \/ GetExecutedFail("r1")
    \/ SkipExecuted("r1")
    \/ UpOk("r1")
    \/ UpFail("r1")
    \/ RecordOk("r1")
    \/ RecordFail("r1")
    \/ MigrateReturn("r1")

SpecMigrate == InitMigrate /\ [][NextMigrate]_vars

\* The user service over either repository, with concurrent Register calls.
Init ==
    /\ MigratorIdle
    /\ TableIdle
    /\ driver \in Drivers
    /\ emailIndex = IF IsGorm(driver) THEN "created" ELSE "pending"
    /\ UsersIdle

Next ==
    \/ \E c \in Clients, req \in CreateRequests : RegisterInvalid(c, req)
    \/ \E c \in Clients, req \in CreateRequests : RegisterPrecheckHit(c, req)
    \/ \E c \in Clients, req \in CreateRequests : RegisterPrecheckMiss(c, req)
    \/ \E c \in Clients : RegisterCreate(c)
    \/ \E req \in LoginRequests : Login(req)
    \/ \E id \in 1..MaxRegisters, req \in UpdateRequests : UpdateUser(id, req)
    \/ CreateIndexOk
    \/ CreateIndexFail

Spec == Init /\ [][Next]_vars

\* The token service: one registered user, the clock and the tokens issued.
SampleRequest ==
    [Email |-> <<"a">>, Password |-> PwGood, Name |-> <<" ", "A", "l">>, Role |-> "admin"]

InitAuth ==
    /\ MigratorIdle
    /\ TableIdle
    /\ driver = "sqlite"
    /\ emailIndex = "created"
    /\ expiration \in Expirations
    /\ users = { CreatedRow("sqlite", BuildUser(SampleRequest, 0), 1, 0) }
    /\ nextID = 2
    /\ now = 0
    /\ tokens = {}
    /\ calls = [c \in Clients |-> IdleCall]
    /\ last = NoResult
    /\ regDone = [e \in NormEmails |-> IF e = <<"a">> THEN <<NilErr>> ELSE <<>>]
    /\ overlapped = FALSE
    /\ fxUsers = {}
    /\ ops = 0

NextAuth ==
    \/ \E req \in LoginRequests : Login(req)
    \/ Tick
    \/ \E tok \in tokens : RefreshToken(tok)
    \/ \E tok \in tokens : RefreshToken(Forge(tok))

SpecAuth == InitAuth /\ [][NextAuth]_vars

\* The migrate command: RunMigrations, -check and -dry-run on one database.
RunVersions == { <<1, 0>>, <<2>> }

Modes == { "check", "dry-run" }

InitRun ==
    /\ MigratorIdle
    /\ TableIdle
    /\ driver \in { "sqlite", "mongo" }
    /\ emailIndex = IF IsGorm(driver) THEN "created" ELSE "pending"
    /\ UsersIdle

NextRun ==
    \/ \E v \in RunVersions : AddMigration("r1", v)
    \/ MigrateSort("r1")
    \/ EnsureTrackingOk("r1")
    \/ EnsureTrackingFail("r1")
    \/ GetExecutedOk("r1")
    \/ GetExecutedFail("r1")
    \/ SkipExecuted("r1")
    \/ UpOk("r1")
    \/ UpFail("r1")
    \/ RecordOk("r1")
    \/ RecordFail("r1")
    \/ MigrateReturn("r1")
    \/ \E env \in Envs : SeedStart("r1", env)
    \/ SeedSkip("r1")
    \/ SeedRunOk("r1")
    \/ SeedRunFail("r1")
    \/ SeedReturn("r1")
    \/ \E mode \in Modes, env \in { "", "production" } : CheckPending("r1", mode, env)
    \/ \E mode \in Modes : CheckPendingFail("r1", mode)

SpecRun == InitRun /\ [][NextRun]_vars

\* The queries SearchUsers is given.
ServiceQueries == BlankQueries \cup { <<"a">> }

\* The repository interface on either backend, called directly and through
\* ListUsers and SearchUsers.
InitRepo ==
    /\ MigratorIdle
    /\ TableIdle
    /\ driver \in Drivers
    /\ emailIndex = IF IsGorm(driver) THEN "created" ELSE "pending"
    /\ UsersIdle

NextRepo ==
    \/ \E user \in RepoUsers({0}) : RepoCreate(user)
    \/ \E id \in Ids : RepoGetByID(id)
    \/ \E user \in RepoUsers(Ids) : RepoUpdate(user)
    \/ \E id \in Ids : RepoDelete(id)
    \/ \E offset \in Offsets, limit \in Limits :
           \E z \in ZeroLimits(limit) : RepoList(offset, limit, z)
    \/ \E q \in Queries, offset \in Offsets, limit \in Limits :
           \E z \in ZeroLimits(limit) : RepoSearch(q, offset, limit, z)
    \/ \E offset \in Offsets, limit \in Limits :
           \E z \in ZeroLimits(limit) : ListUsers(offset, limit, z)
    \/ \E q \in ServiceQueries, offset \in Offsets, limit \in Limits :
           \E z \in ZeroLimits(limit) : SearchUsers(q, offset, limit, z)
    \/ CreateIndexOk
    \/ CreateIndexFail

SpecRepo == InitRepo /\ [][NextRepo]_vars

\* The user service with its administration and the seeders.
AdminCreateRequests ==
    { [Email |-> <<"a">>, Password |-> PwGood, Name |-> <<" ", "A", "l">>,
       Role |-> "moderator"],
      [Email |-> <<"a">>, Password |-> PwShort, Name |-> <<" ", "A", "l">>,
       Role |-> "admin"] }

AdminLoginRequests == { [Email |-> <<"a">>, Password |-> PwGood] }

AdminIds == { 1, 2 }

AdminUpdateRequests == { req \in UpdateRequests : req.has # {"Active"} \/ ~req.Active }

InitAdmin ==
    /\ MigratorIdle
    /\ TableIdle
    /\ driver \in { "sqlite", "mongo" }
    /\ emailIndex = "created"
    /\ UsersIdle

NextAdmin ==
    \/ \E req \in AdminCreateRequests : RegisterInvalid("c1", req)
    \/ \E req \in AdminCreateRequests : RegisterPrecheckHit("c1", req)
    \/ \E req \in AdminCreateRequests : RegisterPrecheckMiss("c1", req)
    \/ RegisterCreate("c1")
    \/ \E req \in AdminLoginRequests : Login(req)
    \/ \E id \in AdminIds : GetProfile(id)
    \/ \E id \in AdminIds : GetUser(id)
    \/ \E req \in AdminUpdateRequests : UpdateProfileRead("c2", 1, req)
    \/ UpdateProfileWrite("c2")
    \/ \E req \in AdminUpdateRequests : UpdateUser(1, req)
    \/ \E id \in AdminIds : DeleteUser(id)
    \/ \E id \in AdminIds : RepoGetByID(id)
    \/ \E id \in AdminIds : RepoDelete(id)
    \/ \E name \in Range(RegisteredSeeders), env \in Envs : SeederRun(name, env)

SpecAdmin == InitAdmin /\ [][NextAdmin]_vars

\* The seeders run again and again on one store, between changes an
\* administrator makes to the first user and ticks of the clock.
InitSeed ==
    /\ MigratorIdle
    /\ TableIdle
    /\ driver \in Drivers
    /\ emailIndex = "created"
    /\ UsersIdle

NextSeed ==
    \/ \E name \in Range(RegisteredSeeders), env \in Envs : SeederRun(name, env)
    \/ \E req \in UpdateRequests : UpdateUser(1, req)
    \/ Tick


\* Register alone, its requests at the limits of validateCreateRequest.
PwWide == << "U+00E9", "U+00E9", "U+00E9", "U+00E9" >>

LimitCreateRequests ==
    InvalidCreateRequests \cup
    { [Email |-> <<"a">>, Password |-> PwGood, Name |-> <<" ", "A", "l">>, Role |-> ""],
      [Email |-> <<"a">>, Password |-> PwGood, Name |-> <<" ", "U+00E9">>, Role |-> ""],
      [Email |-> <<"b">>, Password |-> PwWide, Name |-> <<"A", "l">>, Role |-> ""] }

NextValidate ==
    \/ \E c \in Clients, req \in LimitCreateRequests : RegisterInvalid(c, req)
    \/ \E c \in Clients, req \in LimitCreateRequests : RegisterPrecheckHit(c, req)
    \/ \E c \in Clients, req \in LimitCreateRequests : RegisterPrecheckMiss(c, req)
    \/ \E c \in Clients : RegisterCreate(c)
    \/ Tick

SpecValidate == Init /\ [][NextValidate]_vars

SpecSeed == InitSeed /\ [][NextSeed]_vars

\* SetTablePrefix called by two goroutines while the prefix is read.
InitTable ==
    /\ MigratorIdle
    /\ TableIdle
    /\ driver = "sqlite"
    /\ emailIndex = "created"
    /\ UsersIdle

NextTable ==
    \/ \E c \in Clients, prefix \in Prefixes : SetTablePrefix(c, prefix)
    \/ \E c \in Clients : SetWrite(c)
    \/ \E c \in Clients : SetReturn(c)
    \/ \E c \in Clients : SetWake(c)
    \/ GetTablePrefix
    \/ \E n \in TableNames : GetTableName(n)

SpecTable == InitTable /\ [][NextTable]_vars

\* The document repository alone: Create and Update while the index on email
\* is being built and the clock ticks.
MongoUpdateArgs ==
    { [RepoUser(1, <<"a">>, FALSE) EXCEPT !.Password = Hash(PwWrong),
                                         !.Name = <<"Z", "e", "d">>,
                                         !.Role = "admin", !.CreatedAt = 3],
      [RepoUser(0, <<"b">>, TRUE) EXCEPT !.Password = <<>>, !.Name = <<"B">>],
      [RepoUser(2, <<"c">>, TRUE) EXCEPT !.CreatedAt = 3] }

InitMongo ==
    /\ MigratorIdle
    /\ TableIdle
    /\ driver = "mongo"
    /\ emailIndex = "pending"
    /\ UsersIdle

NextMongo ==
    \/ \E user \in RepoUsers({0}) : RepoCreate(user)
    \/ \E user \in MongoUpdateArgs : RepoUpdate(user)
    \/ CreateIndexOk
    \/ CreateIndexFail
    \/ Tick

SpecMongo == InitMongo /\ [][NextMongo]_vars

(***************************************************************************)
(* Properties of the migration runner (checked under SpecMigrate).         *)
(***************************************************************************)
R1 == mig["r1"]

Returned(k) == R1.pc = "returned" /\ R1.err.kind = k

\* Two runs in a row of the same migration set, both returning nil.
TwoCleanRuns ==
    /\ Returned("nil")
    /\ R1.prevOk
    /\ R1.prevSet = R1.runSet

\* C1: when Migrate has run twice in a row over the same registered set and
\* both runs returned nil, the ledger holds each registered version exactly
\* once and the second run executed no Up.
C1_MigrateTwiceIdempotent ==
    TwoCleanRuns =>
        /\ R1.ups = <<>>
        /\ \A v \in R1.runSet : CountIn(ledger, v) = 1

C1_Witness ==
    /\ TwoCleanRuns
    /\ R1.runs = 2
    /\ Cardinality(R1.runSet) >= 2
    /\ \A v \in R1.runSet : upDone[v] = 1

\* C2: when Migrate returns because an Up failed, the error names the failing
\* version, that Up was the last one started in the run, the failing version
\* has no ledger record, and the ledger is the ledger at the start of the run
\* followed by exactly the versions whose Up succeeded in this run.
C2_UpFailureAborts ==
    Returned("migration_failed") =>
        /\ R1.err.version = R1.migrations[R1.i]
        /\ R1.ups = R1.succeeded \o <<R1.err.version>>
        /\ ~LedgerHas(ledger, R1.err.version)
        /\ ledger = R1.startLedger \o R1.succeeded

C2_Witness ==
    /\ Returned("migration_failed")
    /\ Len(R1.succeeded) >= 1
    /\ R1.startLedger # <<>>
    /\ R1.i < Len(R1.migrations)
    /\ R1.migrations[R1.i + 1] \notin R1.executed

\* C3: no migration's Up completes successfully more than once on the
\* database, whatever runs failed in between.
C3_UpAtMostOnce == \A v \in Versions : upDone[v] <= 1

\* C4: in a run the Ups are started in strictly ascending order of the
\* version strings, and an Up never starts while a pending migration with a
\* smaller version has not had its Up started.
C4_UpsAscending ==
    \A k \in DOMAIN R1.ups :
        /\ \A j \in 1..(k - 1) : StrLess(R1.ups[j], R1.ups[k])
        /\ \A w \in R1.runSet \ R1.executed :
               StrLess(w, R1.ups[k]) => \E j \in 1..(k - 1) : R1.ups[j] = w

C4_Witness ==
    /\ Len(R1.ups) = 3
    /\ R1.regOrder = << <<2>>, <<1, 0>>, <<1>> >>
    /\ R1.ups = << <<1>>, <<1, 0>>, <<2>> >>

(***************************************************************************)
(* Properties of the user service (Spec) and the token service (SpecAuth). *)
(***************************************************************************)

Successes(s) == Cardinality({ k \in DOMAIN s : s[k] = NilErr })

Rejections(s) == Cardinality({ k \in DOMAIN s : s[k] = ErrUserExists })

\* C5: when Register is called twice, one call after the other, with emails
\* that normalize to the same address, exactly one call succeeds, the other
\* returns AlreadyExists, and the store holds exactly one user with that
\* address.
C5_SameEmailTwice ==
    \A e \in NormEmails :
        (~overlapped /\ Len(regDone[e]) = 2) =>
            /\ Successes(regDone[e]) = 1
            /\ Rejections(regDone[e]) = 1
            /\ Cardinality(MatchEmail(users, e)) = 1

\* C6: however many Register calls carry the same email, and however they
\* interleave, at most one of the finished calls succeeded, every other
\* finished call returned AlreadyExists, a finished call implies a winner,
\* and the store never holds two users with the same email.
C6_OneWinnerPerEmail ==
    \A e \in NormEmails :
        /\ Successes(regDone[e]) <= 1
        /\ Successes(regDone[e]) + Rejections(regDone[e]) = Len(regDone[e])
        /\ (Len(regDone[e]) >= 1 => Successes(regDone[e]) = 1)
        /\ Cardinality(MatchEmail(users, e)) <= 1

\* The user a Login request names, if the store holds one.
Named(req) == MatchEmail(users, Normalize(req.Email))

\* C7: a Login (with a well-formed request) whose email matches no user, or
\* matches a user whose password differs from the one given, returns
\* InvalidPassword.
C7_SameErrorKind ==
    (/\ last.op = "Login"
     /\ ValidateLoginRequest(last.req) = NilErr
     /\ \/ Named(last.req) = {}
        \/ \E u \in Named(last.req) : ~CheckPassword(u.Password, last.req.Password))
        => last.err = ErrInvalidPassword

\* C8: a Login with the email and the correct password of a user whose
\* active flag is false returns Forbidden and no token; a Login returns a
\* token only if a user with that email exists, is active and has the
\* password given.
C8_DeactivatedIsForbidden ==
    last.op = "Login" =>
        /\ (\E u \in Named(last.req) :
                ~u.Active /\ CheckPassword(u.Password, last.req.Password))
               => (last.err.code = "FORBIDDEN" /\ last.out.token = NoToken)
        /\ last.out.token # NoToken
               => (/\ last.err = NilErr
                   /\ \E u \in Named(last.req) :
                          u.Active /\ CheckPassword(u.Password, last.req.Password))

C8_Witness ==
    /\ last.op = "Login"
    /\ last.err.code = "FORBIDDEN"
    /\ last.req.Password = PwGood
    /\ \E u \in Named(last.req) : ~u.Active /\ CheckPassword(u.Password, PwGood)

\* The validity a token has left at the time of the last call.
Remaining == last.req.ExpiresAt - last.at

Fresh == last.req.IssuedAt = last.at /\ last.req.Sig = "hs256"

\* C9 as stated: RefreshToken returns a token only for a valid token with
\* strictly less than one hour left, rejects a freshly issued token with a
\* validation error, and rejects an invalid token with InvalidToken.
C9_RefreshOnlyUnderOneHour ==
    last.op = "RefreshToken" =>
        /\ last.err = NilErr => (ValidateToken(last.req, last.at) /\ Remaining < Hour)
        /\ Fresh => last.err.code \in ValidationCodes
        /\ ~ValidateToken(last.req, last.at) => last.err = ErrInvalidToken

\* C9 amended: RefreshToken returns a token exactly when the token validates
\* and has at most one hour left; a freshly issued token is rejected with a
\* validation error when the configured expiration exceeds one hour; an
\* invalid token is rejected with InvalidToken.
C9_RefreshWithinOneHour ==
    last.op = "RefreshToken" =>
        /\ last.err = NilErr <=> (ValidateToken(last.req, last.at) /\ Remaining <= Hour)
        /\ last.err = NilErr <=> last.out.token # NoToken
        /\ (Fresh /\ expiration > Hour) => last.err.code \in ValidationCodes
        /\ ~ValidateToken(last.req, last.at) => last.err = ErrInvalidToken

C9_Witness ==
    /\ last.op = "RefreshToken"
    /\ last.err = NilErr
    /\ Remaining = Hour
    /\ expiration > Hour

IsPrefix(a, b) == Len(a) <= Len(b) /\ a = SubSeq(b, 1, Len(a))

SeedingOver == R1.seed = "done" /\ R1.pc = "returned"

\* C19 as stated: no seeder runs unless Migrate returned nil, and when
\* RunMigrations is over the seeders whose Run was executed are exactly those
\* whose ShouldRun(env) is true.
C19_SeedersRunIffShouldRun ==
    /\ R1.ran # <<>> => (R1.seed # "none" /\ R1.err.kind \in {"nil", "seeder_failed"})
    /\ SeedingOver =>
           Range(R1.ran) = { n \in Range(RegisteredSeeders) : ShouldRun(n, R1.env) }

\* C19 amended: no seeder's Run starts unless Migrate returned nil; a seeder
\* runs only if its ShouldRun(env) is true (AdminUserSeeder only for
\* development and staging, TestUsersSeeder only for development, none for
\* any other environment); the seeders run in registration order, all of
\* them when Seed returns nil, and up to the first one whose Run fails
\* otherwise.
C19_SeedersRunInOrderUntilFailure ==
    /\ R1.ran # <<>> => (R1.seed # "none" /\ R1.err.kind \in {"nil", "seeder_failed"})
    /\ "AdminUserSeeder" \in Range(R1.ran) => R1.env \in {"development", "staging"}
    /\ "TestUsersSeeder" \in Range(R1.ran) => R1.env = "development"
    /\ IsPrefix(R1.ran, WouldRun(R1.env))
    /\ (SeedingOver /\ R1.err = NoErr) => R1.ran = WouldRun(R1.env)
    /\ (SeedingOver /\ R1.err # NoErr) => R1.ran # <<>>

C19_Witness ==
    /\ SeedingOver
    /\ R1.err = NoErr
    /\ R1.env = "staging"
    /\ R1.ran = << "AdminUserSeeder" >>
    /\ Len(R1.succeeded) = 2

\* C20: a step of the check or dry-run mode leaves the ledger, the count of
\* completed forward actions, the users and the seeders run as they were,
\* and the versions it reports as pending are exactly the registered
\* versions the ledger does not hold.
C20_CheckModesReadOnly ==
    [][ mig'["r1"].reports # R1.reports =>
            /\ UNCHANGED <<ledger, upDone, users, fxUsers>>
            /\ mig'["r1"].ran = R1.ran
            /\ mig'["r1"].migrations = R1.migrations
            /\ mig'["r1"].report.err = NoErr =>
                   Range(mig'["r1"].report.pending) = Range(R1.migrations) \ Range(ledger)
      ]_vars

C20_Witness ==
    /\ R1.report.mode = "dry-run"
    /\ R1.report.err = NoErr
    /\ Len(R1.report.pending) = 1
    /\ ledger # <<>>
    /\ Range(R1.report.pending) = Range(R1.migrations) \ Range(ledger)

(***************************************************************************)
(* Properties of the repository interface.                                 *)
(***************************************************************************)

IsPage == last.op \in { "List", "Search" }

\* The users the call of `last` selects among, before the backend's filter
\* on active.
Candidates ==
    IF last.op = "Search" THEN { u \in users : MatchesQuery(u, last.req.Query) }
    ELSE users

\* C13: a successful list or search returns at most limit users, and its
\* total is the number of users matching the backend's filter.
C13_AtMostLimitUsers ==
    (IsPage /\ last.err = NilErr) =>
        /\ Len(last.out.users) <= last.req.Limit
        /\ last.out.total =
               Cardinality(IF IsGorm(driver) THEN Candidates
                           ELSE { u \in Candidates : u.Active })

C16_UpdateOfMissingRowIsNotFound ==
    [][ (IsGorm(driver) /\ last'.op = "Update" /\ ops' = ops + 1
           /\ last'.req.ID # 0
           /\ ~(\E u \in users : u.ID = last'.req.ID)) =>
          /\ last'.err = ErrUserNotFound
          /\ users' = users ]_vars

\* C18: list and search of the document repository return active users only
\* and count only those; list and search of the relational repository return
\* active and inactive users alike and count all of them.
C18_ActiveFilterOnDocumentStoreOnly ==
    (IsPage /\ last.req.Offset >= 0 /\ last.req.Limit >= 1) =>
        LET matching == IF IsGorm(driver) THEN Candidates
                        ELSE { u \in Candidates : u.Active }
            rest == Cardinality(matching) - last.req.Offset
        IN  /\ last.err = NilErr
            /\ last.out.total = Cardinality(matching)
            /\ Range(last.out.users) \subseteq matching
            /\ Len(last.out.users) =
                   MinOf(last.req.Limit, IF rest > 0 THEN rest ELSE 0)

\* C14: SearchUsers with an empty or blank query returns what ListUsers
\* returns for the same offset and limit, and does not call the repository's
\* Search.
C14_BlankSearchIsList ==
    (last.op = "SearchUsers" /\ TrimSpace(last.req.Query) = <<>>) =>
        /\ last.out.repo = "List"
        /\ [err |-> last.err, page |-> last.out] \in
               ListUsersOutcomes(driver, users, last.req.Offset, last.req.Limit,
                                 last.req.ZeroIsNone)

C14_Witness ==
    /\ last.op = "SearchUsers"
    /\ last.req.Query = <<" ">>
    /\ last.err = NilErr
    /\ Len(last.out.users) = 1
    /\ last.out.total = 2

(***************************************************************************)
(* Properties of the persisted users.                                      *)
(***************************************************************************)

Persisted == users \cup fxUsers

\* C11: every persisted user has the role user or admin.
C11_RolesAreUserOrAdmin == \A u \in Persisted : u.Role \in { "user", "admin" }

\* The plaintexts the callers and the seeders supply.
CallerPlaintexts ==
    { PwGood, PwWrong, PwShort, <<"admin123456">>, <<"password123">> }

PasswordsKept(before, after) ==
    \A u \in before, w \in after : u.ID = w.ID => w.Password = u.Password

\* C12: the password of every persisted user is a digest and never a
\* plaintext a caller supplied, and no step replaces the password of a
\* persisted user by another value.
C12_PasswordsAreHashes ==
    /\ [](\A u \in Persisted :
              Head(u.Password) = "$2a$" /\ u.Password \notin CallerPlaintexts)
    /\ [][ PasswordsKept(users, users') /\ PasswordsKept(fxUsers, fxUsers') ]_vars

C12_Witness ==
    /\ last.op = "UpdateProfile"
    /\ last.err = NilErr
    /\ \E u \in users : u.ID = last.out.ID /\ u.Name = last.out.Name
    /\ calls["c1"].pc = "idle"
    /\ regDone[<<"a">>] # <<>>

ByIDOps ==
    { "GetByID", "Delete", "GetProfile", "UpdateProfile", "GetUser", "UpdateUser",
      "DeleteUser" }

\* C17: on the document repository GetByID and Delete return NotFound for
\* every id and every content of the collection; GetProfile, UpdateProfile,
\* GetUser, UpdateUser and DeleteUser return NotFound, and no step changes or
\* removes a stored user.
C17_MongoByIDIsNotFound ==
    /\ [](driver = "mongo" =>
              /\ \A id \in Ids :
                     /\ RepoGetByIDErr(driver, users, id) = ErrUserNotFound
                     /\ RepoDeleteErr(driver, users, id) = ErrUserNotFound
              /\ last.op \in ByIDOps => last.err.code = "NOT_FOUND")
    /\ [][ driver = "mongo" =>
              /\ last'.op \in ByIDOps => users' = users
              /\ users \subseteq users' ]_vars

C17_Witness ==
    /\ driver = "mongo"
    /\ last.op = "DeleteUser"
    /\ last.err = ErrUserNotFound
    /\ \E u \in users : u.ID = last.req.ID

(***************************************************************************)
(* Properties of the seeders (checked under SpecSeed).                     *)
(***************************************************************************)

\* The store a seeder writes on the backend.
SeedStore == IF IsGorm(driver) THEN users ELSE fxUsers

SeededEmails(name) == { SeederUsers(name, 0)[i].Email : i \in DOMAIN SeederUsers(name, 0) }

\* C21: a seeder inserts a user only if no user has its email: its run keeps
\* every user there was unchanged, leaves one user for each of its emails,
\* returns no error, and inserts nothing when its users are there already.
C21_SeedersAreIdempotent ==
    [][ (last'.op = "Seed" /\ ops' = ops + 1) =>
          LET before == SeedStore
              after == IF IsGorm(driver) THEN users' ELSE fxUsers'
              emails == SeededEmails(last'.req.Name)
          IN  /\ last'.err = NilErr
              /\ before \subseteq after
              /\ \A u \in after \ before :
                     u.Email \in emails /\ MatchEmail(before, u.Email) = {}
              /\ \A e \in emails : Cardinality(MatchEmail(after, e)) = 1
              /\ (\A e \in emails : MatchEmail(before, e) # {}) => after = before ]_vars

\* A seeder ran a second time, later, after an administrator had changed the
\* user it seeded first.
C21_Witness ==
    /\ ops = 2
    /\ last.op = "Seed"
    /\ last.req.Name = "TestUsersSeeder"
    /\ last.at > 0
    /\ Cardinality(SeedStore) = 4
    /\ \A u \in SeedStore : u.CreatedAt = 0
    /\ IsGorm(driver) => \E u \in users : u.ID = 1 /\ ~u.Active

(***************************************************************************)
(* Properties of the document repository (checked under SpecMongo).        *)
(***************************************************************************)

\* C22: Update of the document repository changes name, role and active of
\* one document whose email is the email of the user given, and nothing
\* else; it inserts no document, and when no document has the email it
\* returns NotFound and changes nothing.
C22_MongoUpdateSetsThreeFields ==
    [][ (driver = "mongo" /\ last'.op = "Update" /\ ops' = ops + 1) =>
          LET user == last'.req
              match == MatchEmail(users, user.Email)
          IN  IF match = {}
              THEN last'.err = ErrUserNotFound /\ users' = users
              ELSE /\ last'.err = NilErr
                   /\ \E doc \in match :
                          users' = (users \ {doc}) \cup
                                   { [ID |-> doc.ID, Email |-> doc.Email,
                                      Password |-> doc.Password, Name |-> user.Name,
                                      Role |-> user.Role, Active |-> user.Active,
                                      CreatedAt |-> doc.CreatedAt] } ]_vars

\* An Update changed a document to a name, role and active flag given with
\* another password and creation time.
C22_Witness ==
    /\ driver = "mongo"
    /\ last.op = "Update"
    /\ last.err = NilErr
    /\ last.req.Password = Hash(PwWrong)
    /\ \E u \in users :
           /\ u.Email = last.req.Email
           /\ u.Name = <<"Z", "e", "d">>
           /\ u.Role = "admin"
           /\ u.Password = Hash(PwGood)
           /\ u.CreatedAt < last.req.CreatedAt

RejectedFields(req) ==
    (IF TrimSpace(req.Email) = <<>> THEN { "email" } ELSE {}) \cup
    (IF Len(TrimSpace(req.Name)) < 2 THEN { "name" } ELSE {}) \cup
    (IF Len(req.Password) < 8 THEN { "password" } ELSE {})

\* C24: Register with a blank email, a name that is blank or shorter than 2
\* characters after trimming, or a password shorter than 8 characters returns
\* a Validation error naming the field, calls no repository and leaves the
\* store unchanged.
C24_InvalidRegisterIsRejected ==
    [][ (last'.op = "Register" /\ last' # last /\ RejectedFields(last'.req) # {}) =>
          /\ last'.err.code = "VALIDATION_ERROR"
          /\ last'.err.field \in RejectedFields(last'.req)
          /\ UNCHANGED <<users, nextID, calls, regDone>> ]_vars

(***************************************************************************)
(* Properties of the table prefix (checked under SpecTable).               *)
(***************************************************************************)

\* C25: once a SetTablePrefix call has taken effect the prefix is its
\* argument and never changes; from then on GetTablePrefix returns it and
\* GetTableName(n) returns it followed by n, or n alone while it is empty.
C25_TablePrefixIsSetOnce ==
    /\ [](setters.took.set => tablePrefix = setters.took.arg)
    /\ [](~setters.took.set => tablePrefix = <<>>)
    /\ [][ setters.took.set => UNCHANGED <<tablePrefix, setters.took>> ]_vars
    /\ []((last.op = "GetTablePrefix" /\ last.taken) =>
              last.out = setters.took.arg)
    /\ []((last.op = "GetTableName" /\ last.taken) =>
              last.out = IF setters.took.arg = <<>> THEN last.req.name
                         ELSE setters.took.arg \o last.req.name)

\* Three calls were made, the second while the first ran, and the name of a
\* table was read afterwards.
C25_Witness ==
    /\ setters.calls = 3
    /\ once = "done"
    /\ \A c \in Clients : setters.call[c].pc = "idle"
    /\ last.op = "GetTableName"
    /\ last.taken
    /\ last.out = <<"fx_", "users">>

(***************************************************************************)
(* Calls made under a context that is already cancelled.                   *)
(***************************************************************************)

\* What a backend call does with a cancelled context: gorm calls made through
\* WithContext(ctx) and every mongo call return the error of the context
\* without touching the store; gorm calls made on the bare handle never see
\* the context and run to the end.
Canceled == Err("CANCELED")

\* userGormRepository.Create / userMongoRepository.Create: the backend returns
\* the error of the context, which is no unique-key error, and the repository
\* wraps it as a database error.
\* domain.WrapError: a domain error with the given code; the wrapped error
\* survives only as the text of Details.
WrapError(err, code) == Err(code)

CreateCancelledErr == WrapError(Canceled, "DATABASE_ERROR")

CreateCancelled(user) ==
    /\ ops < MaxOps
    /\ ops' = ops + 1
    /\ last' = Result("Create", [User |-> user, Ctx |-> "cancelled"],
                      CreateCancelledErr, NoUser, FALSE, now)
    /\ UNCHANGED <<driver, expiration, users, nextID, emailIndex, now, tokens, calls,
                   regDone, overlapped, fxUsers, migVars, tableVars>>

\* A seeder's Run: seedSQL reads and creates on the bare gorm handle, seedMongo
\* counts with the context and returns its error as it is.
SeederRunCancelled(name, env) ==
    /\ ShouldRun(name, env)
    /\ ops < MaxOps
    /\ ops' = ops + 1
    /\ users' = IF IsGorm(driver) THEN SeedInto(users, SeederUsers(name, now), nextID)
                ELSE users
    /\ nextID' = nextID + Cardinality(users') - Cardinality(users)
    /\ last' = Result("Seed", [Name |-> name, Ctx |-> "cancelled"],
                      IF IsGorm(driver) THEN NilErr ELSE Canceled, NoUser, FALSE, now)
    /\ UNCHANGED <<driver, expiration, emailIndex, now, tokens, calls, regDone,
                   overlapped, fxUsers, migVars, tableVars>>

\* ensureMigrationTracking: CREATE TABLE runs on the bare gorm handle;
\* Indexes().CreateOne(ctx) returns the error of the context, which Migrate
\* wraps with %w.
EnsureTrackingCancelled(r) ==
    /\ mig[r].pc = "ensure"
    /\ mig' = IF IsGorm(driver)
              THEN [mig EXCEPT ![r].pc = "read"]
              ELSE [mig EXCEPT ![r].pc = "returned",
                               ![r].err = MigErr("tracking_canceled", <<>>)]
    /\ UNCHANGED <<ledger, upDone, userVars, tableVars>>

\* The rest of Migrate on gorm: getExecutedMigrations and recordMigration use
\* the bare handle, and so does the Up of the registered migration.
MigrateOnBareHandle(r) ==
    /\ IsGorm(driver)
    /\ \/ GetExecutedOk(r)
       \/ SkipExecuted(r)
       \/ UpOk(r)
       \/ RecordOk(r)
       \/ MigrateReturn(r)

\* Repository, seeders and runner, every call under a cancelled context.
InitCancel ==
    /\ MigratorIdle
    /\ TableIdle
    /\ driver \in Drivers
    /\ emailIndex = "created"
    /\ UsersIdle

NextCancel ==
    \/ \E user \in RepoUsers({0}) : CreateCancelled(user)
    \/ \E name \in Range(RegisteredSeeders), env \in Envs : SeederRunCancelled(name, env)
    \/ AddMigration("r1", <<1>>)
    \/ MigrateSort("r1")
    \/ EnsureTrackingCancelled("r1")
    \/ MigrateOnBareHandle("r1")

SpecCancel == InitCancel /\ [][NextCancel]_vars

(***************************************************************************)
(* Properties of cancellation (checked under SpecCancel).                  *)
(***************************************************************************)

\* The codes of the domain errors.
DomainCodes ==
    { "VALIDATION_ERROR", "INVALID_VALUE", "UNAUTHORIZED", "FORBIDDEN", "INVALID_TOKEN",
      "INVALID_PASSWORD", "NOT_FOUND", "ALREADY_EXISTS", "INTERNAL_ERROR",
      "DATABASE_ERROR" }

\* C26: a repository, seeder or runner call made under a cancelled context
\* writes nothing and returns a cancellation error, which is none of the
\* domain errors: the repository and the seeders leave the stores as they
\* were and return the cancellation, the runner leaves the ledger as it was
\* and returns from ensureMigrationTracking with the cancellation.
C26_CancelledCallsAbort ==
    /\ [][ last' # last =>
             /\ UNCHANGED <<users, fxUsers, nextID>>
             /\ last'.err = Canceled
             /\ last'.err.code \notin DomainCodes ]_vars
    /\ [][ UNCHANGED ledger ]_vars
    /\ [][ \A r \in Runners :
             (mig[r].pc = "ensure" /\ mig'[r].pc # "ensure") =>
                 /\ mig'[r].pc = "returned"
                 /\ mig'[r].err.kind = "tracking_canceled" ]_vars

\* The part of it the mongo driver keeps: its seeders and its runner stop
\* with the cancellation and write nothing.
MongoCancelledCallsAbort ==
    /\ [][ (~IsGorm(driver) /\ last' # last /\ last'.op = "Seed") =>
             /\ UNCHANGED <<users, fxUsers, nextID>>
             /\ last'.err = Canceled ]_vars
    /\ [][ ~IsGorm(driver) => UNCHANGED ledger ]_vars

(***************************************************************************)
(* Tokens and deactivation.                                                *)
(***************************************************************************)

\* The requests by which an administrator deactivates and reactivates.
ActivationRequests == { req \in UpdateRequests : req.has = {"Active"} }

\* One registered user logs in and refreshes tokens while an administrator
\* deactivates and reactivates the account.
NextDeactivate ==
    \/ \E req \in LoginRequests : Login(req)
    \/ \E tok \in tokens : RefreshToken(tok)
    \/ \E req \in ActivationRequests : UpdateUser(1, req)
    \/ Tick

SpecDeactivate == InitAuth /\ [][NextDeactivate]_vars

\* The stored user a token is bound to is active.
BoundToActiveUser(tok) == \E u \in users : u.ID = tok.UserID /\ u.Active

\* C27: a token that Login or RefreshToken has just issued is bound to a user
\* whose account is active: while the account is deactivated neither of them
\* issues one, whatever token of the user RefreshToken is handed.
C27_NoTokenWhileDeactivated ==
    (last.op \in {"Login", "RefreshToken"} /\ last.err = NilErr) =>
        BoundToActiveUser(last.out.token)

\* The part of it that is Login's.
LoginRefusesDeactivated ==
    (last.op = "Login" /\ last.err = NilErr) => BoundToActiveUser(last.out.token)

(***************************************************************************)
(* UpdateProfile beside UpdateUser.                                        *)
(***************************************************************************)

\* A registered user changes the profile while an administrator updates the
\* same user.
NextProfile ==
    \/ \E req \in UpdateRequests : UpdateProfileRead("c2", 1, req)
    \/ UpdateProfileWrite("c2")
    \/ \E req \in UpdateRequests : UpdateUser(1, req)
    \/ Tick

SpecProfile == InitAuth /\ [][NextProfile]_vars

\* The fields of the stored users that are not the profile's.
Guarded(us) ==
    { [ID |-> u.ID, Role |-> u.Role, Active |-> u.Active, Email |-> u.Email,
       Password |-> u.Password] : u \in us }

\* A step in which UpdateProfile calls userRepo.Update and returns.
ProfileWritten == \E c \in Clients : calls[c].pc = "update" /\ calls'[c].pc = "idle"

\* C28: the write of UpdateProfile leaves the role, the active flag, the email
\* and the password hash of every stored user as they are in the store at
\* that moment, so that what UpdateUser committed after UpdateProfile's read
\* is still there when UpdateProfile has returned.
C28_UpdateProfileKeepsGuardedFields ==
    [][ ProfileWritten => Guarded(users') = Guarded(users) ]_vars

\* The same of an UpdateProfile whose read saw the store as it is at the
\* write.
ProfileWrittenFresh ==
    \E c \in Clients :
        /\ calls[c].pc = "update"
        /\ calls'[c].pc = "idle"
        /\ Guarded({calls[c].user}) \subseteq Guarded(users)

UpdateProfileAloneKeepsGuardedFields ==
    [][ ProfileWrittenFresh => Guarded(users') = Guarded(users) ]_vars

(***************************************************************************)
(* Two migration runners on one database.                                  *)
(***************************************************************************)

\* How often each of the two runners calls Migrate.
MaxRunsEach == 1

PairVersions == { <<1>>, <<2>> }

\* Two processes register their migrations and call Migrate against the same
\* database, their steps interleaved.
NextPair ==
    \E r \in Runners :
        \/ \E v \in PairVersions : mig[r].runs = 0 /\ AddMigration(r, v)
        \/ mig[r].runs < MaxRunsEach /\ MigrateSort(r)
        \/ EnsureTrackingOk(r)
        \/ GetExecutedOk(r)
        \/ SkipExecuted(r)
        \/ UpOk(r)
        \/ UpFail(r)
        \/ RecordOk(r)
        \/ RecordFail(r)
        \/ MigrateReturn(r)

SpecPair == InitMigrate /\ [][NextPair]_vars

(***************************************************************************)
(* Properties of two runners (checked under SpecPair).                     *)
(***************************************************************************)

\* C29: with two runners in Migrate at once the ledger holds no version
\* twice; a runner whose recordMigration meets a version the other runner
\* has recorded writes nothing and returns the record error for it; and the
\* Up of every version in the ledger has returned nil in some runner.
C29_LedgerUniqueUnderTwoRunners ==
    /\ [](\A v \in Versions : CountIn(ledger, v) <= 1)
    /\ [](\A v \in Range(ledger) : upDone[v] >= 1)
    /\ [][ \A r \in Runners :
             (mig[r].pc = "record" /\ mig'[r] # mig[r] /\ LedgerHas(ledger, Current(r))) =>
                 /\ UNCHANGED ledger
                 /\ mig'[r].pc = "returned"
                 /\ mig'[r].err = MigErr("record_failed", Current(r)) ]_vars

\* Both runners ran the Up of version 1, one recorded it and went on to
\* return nil, the other met the record and returned the record error.
C29_Witness ==
    /\ upDone[<<1>>] = 2
    /\ CountIn(ledger, <<1>>) = 1
    /\ mig["r1"].pc = "returned"
    /\ mig["r1"].err = NoErr
    /\ mig["r1"].succeeded = << <<1>> >>
    /\ mig["r2"].pc = "returned"
    /\ mig["r2"].err = MigErr("record_failed", <<1>>)
    /\ mig["r2"].succeeded = << <<1>> >>
    /\ <<1>> \notin mig["r2"].executed

(***************************************************************************)
(* The admin routes behind the JWT middleware.                             *)
(***************************************************************************)

\* gin's abortIndex: Abort moves the index of the chain there.
AbortIndex == 63

\* The handlers gin runs for a route of the /users group: the middleware of
\* the router, the middleware of the group and the handler of the route.
Chain == << "Logger", "Recovery", "RequireAdmin", "Handler" >>

Routes == { "GET", "DELETE" }

\* The Authorization header of a request: absent when the scheme is empty.
Header(scheme, tok) == [scheme |-> scheme, token |-> tok]

Headers(toks) ==
    { Header("", NoToken), Header("Bearer", NoToken) } \cup
    { Header("Basic", tok) : tok \in toks } \cup
    { Header("Bearer", tok) : tok \in toks \cup { Forge(k) : k \in toks } }

\* extractToken: the text after "Bearer ", empty without that prefix.
ExtractToken(h) == IF h.scheme = "Bearer" THEN h.token ELSE NoToken

\* domain.HTTPStatusFromError.
HTTPStatusFromError(err) ==
    CASE err.code \in { "VALIDATION_ERROR", "INVALID_VALUE" } -> 400
      [] err.code \in { "UNAUTHORIZED", "INVALID_TOKEN", "INVALID_PASSWORD" } -> 401
      [] err.code = "FORBIDDEN" -> 403
      [] err.code = "NOT_FOUND" -> 404
      [] err.code = "ALREADY_EXISTS" -> 409
      [] OTHER -> 500

\* gin.Context at the start of a request: the index before the chain, the
\* response writer with its default status and nothing written, no keys set.
NewContext(route, h, id, us, t) ==
    [ index |-> 0, status |-> 200, written |-> FALSE, bodies |-> <<>>,
      role |-> "", userID |-> 0, ran |-> 0,
      route |-> route, header |-> h, id |-> id, users |-> us, now |-> t ]

\* c.Status: the status changes only while nothing has been written.
Status(c, code) == IF c.written THEN c ELSE [c EXCEPT !.status = code]

\* c.JSON: Status, then the body is written.
JSON(c, code) == [Status(c, code) EXCEPT !.written = TRUE, !.bodies = Append(@, code)]

Abort(c) == [c EXCEPT !.index = AbortIndex]

IsAborted(c) == c.index >= AbortIndex

\* UserHandler.GetUser.
HandleGetUser(c) ==
    LET err == RepoGetByIDErr(driver, c.users, c.id)
    IN  IF err # NilErr THEN JSON(c, HTTPStatusFromError(err)) ELSE JSON(c, 200)

\* UserHandler.DeleteUser.
HandleDeleteUser(c) ==
    LET err == IF ~GetByIDFound(driver, c.users, c.id)
               THEN RepoGetByIDErr(driver, c.users, c.id)
               ELSE RepoDeleteErr(driver, c.users, c.id)
    IN  IF c.userID = c.id THEN JSON(c, 400)
        ELSE IF err # NilErr THEN JSON(c, HTTPStatusFromError(err))
        ELSE Status([c EXCEPT !.users = RepoDeleteStore(driver, c.users, c.id)], 204)

Handler(c) ==
    LET d == [c EXCEPT !.ran = @ + 1]
    IN  IF c.route = "GET" THEN HandleGetUser(d) ELSE HandleDeleteUser(d)

RECURSIVE GinLoop(_)
RECURSIVE Run(_, _)

\* c.Next: the index moves on and the handlers from there to the end of the
\* chain run, each followed by one more move of the index.
GinNext(c) == GinLoop([c EXCEPT !.index = @ + 1])

GinLoop(c) ==
    IF c.index <= Len(Chain)
    THEN LET d == Run(Chain[c.index], c) IN GinLoop([d EXCEPT !.index = @ + 1])
    ELSE c

\* JWTMiddleware.RequireAuth: 401 and Abort without a valid token; with one,
\* the claims are set in the context and c.Next runs the rest of the chain.
RequireAuth(c) ==
    LET tok == ExtractToken(c.header)
    IN  IF tok = NoToken THEN Abort(JSON(c, 401))
        ELSE IF ~ValidateToken(tok, c.now) THEN Abort(JSON(c, 401))
        ELSE GinNext([c EXCEPT !.userID = tok.UserID, !.role = tok.Role])

\* JWTMiddleware.RequireAdmin: RequireAuth is called as a function, then the
\* role is tested.
RequireAdmin(c) ==
    LET d == RequireAuth(c)
    IN  IF IsAborted(d) THEN d
        ELSE IF d.role # "admin" THEN Abort(JSON(d, 403))
        ELSE GinNext(d)

Run(h, c) ==
    CASE h = "RequireAdmin" -> RequireAdmin(c)
      [] h = "Handler" -> Handler(c)
      [] OTHER -> GinNext(c)

\* One request to GET or DELETE /api/v1/users/:id, from the router to the
\* response.
Serve(route, h, id) ==
    LET c == GinNext(NewContext(route, h, id, users, now))
    IN  /\ ops < MaxOps
        /\ ops' = ops + 1
        /\ users' = c.users
        /\ last' = Result("Serve", [Route |-> route, Header |-> h, ID |-> id], NilErr,
                          [status |-> c.status, bodies |-> c.bodies, ran |-> c.ran,
                           aborted |-> IsAborted(c)],
                          FALSE, now)
        /\ UNCHANGED <<driver, expiration, nextID, emailIndex, now, tokens, calls,
                       regDone, overlapped, fxUsers, migVars, tableVars>>

\* An administrator and a user are registered; they log in and send requests
\* to the admin routes with and without their tokens.
OtherRequest ==
    [Email |-> <<"b">>, Password |-> PwGood, Name |-> <<" ", "A", "l">>, Role |-> ""]

ServeLoginRequests ==
    { [Email |-> <<"a">>, Password |-> PwGood], [Email |-> <<"b">>, Password |-> PwGood] }

ServeIds == 1..2

InitServe ==
    /\ MigratorIdle
    /\ TableIdle
    /\ driver = "sqlite"
    /\ emailIndex = "created"
    /\ expiration \in Expirations
    /\ users = { CreatedRow("sqlite", BuildUser(SampleRequest, 0), 1, 0),
                 CreatedRow("sqlite", BuildUser(OtherRequest, 0), 2, 0) }
    /\ nextID = 3
    /\ now = 0
    /\ tokens = {}
    /\ calls = [c \in Clients |-> IdleCall]
    /\ last = NoResult
    /\ regDone = [e \in NormEmails |-> <<NilErr>>]
    /\ overlapped = FALSE
    /\ fxUsers = {}
    /\ ops = 0

NextServe ==
    \/ \E req \in ServeLoginRequests : Login(req)
    \/ \E route \in Routes, h \in Headers(tokens), id \in ServeIds : Serve(route, h, id)
    \/ Tick

SpecServe == InitServe /\ [][NextServe]_vars

(***************************************************************************)
(* Properties of the admin routes (checked under SpecServe).               *)
(***************************************************************************)

\* The request carries a Bearer token that validates.
Authenticated(req, t) ==
    /\ ExtractToken(req.Header) # NoToken
    /\ ValidateToken(ExtractToken(req.Header), t)

IsAdminRequest(req, t) == Authenticated(req, t) /\ ExtractToken(req.Header).Role = "admin"

\* C30: the handler of an admin route runs only for a request whose Bearer
\* token validates and carries the role admin; a request with no token or an
\* invalid one is answered 401 and one with a valid token of another role
\* 403, the handler not running in either case.
C30_AdminRoutesNeedAdminToken ==
    last.op = "Serve" =>
        /\ last.out.ran > 0 => IsAdminRequest(last.req, last.at)
        /\ ~Authenticated(last.req, last.at) =>
               last.out.status = 401 /\ last.out.ran = 0
        /\ (Authenticated(last.req, last.at) /\ ~IsAdminRequest(last.req, last.at)) =>
               last.out.status = 403 /\ last.out.ran = 0

\* What the middleware does keep: without a valid Bearer token the answer is
\* 401 and the handler does not run; with a valid admin token the handler
\* runs once; and a DELETE that is answered 401 removes nothing.
UnauthenticatedIsRejected ==
    last.op = "Serve" =>
        /\ ~Authenticated(last.req, last.at) =>
               /\ last.out.status = 401
               /\ last.out.ran = 0
               /\ last.out.aborted
        /\ IsAdminRequest(last.req, last.at) => last.out.ran = 1

====
